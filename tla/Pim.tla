-------------------------------- MODULE Pim --------------------------------
(***************************************************************************)
(* The PIM engine: requesting, ending and using a time-boxed privileged    *)
(* session (internal/pim/service.go, internal/handler/pim.go).             *)
(*                                                                         *)
(* Every HTTP request runs in a goroutine of its own, a member of Procs.   *)
(* The database is SQLite behind one connection, so a single SQL statement *)
(* is atomic, but no handler opens a transaction: two handlers interleave  *)
(* between their statements.  Each action below is one SQL statement of a  *)
(* handler with the local code that follows it.  A statement may fail and  *)
(* the process may crash; both spend the budget MaxFaults.                 *)
(*                                                                         *)
(* Time is counted in units of which DayLen make a UTC day.  expires_at is *)
(* stored as RFC 3339 ("2025-01-02T10:00:00Z") and compared, as text, with *)
(* CURRENT_TIMESTAMP ("2025-01-02 10:00:00"): on equal dates the 'T' wins  *)
(* over the blank, so the comparison tells days apart and nothing finer.   *)
(***************************************************************************)
EXTENDS Integers, FiniteSets

CONSTANTS
  Users,              \* administrators: callers whose JWT carries role admin
  Procs,              \* handler goroutines that may run at the same time
  PimIds,             \* the UUIDs the run can draw (bounds the table)
  None,
  DayLen,             \* time units in a UTC day
  MaxDuration,        \* maxDurationMin
  DefaultDuration,    \* the handler's default for an absent duration
  BreakGlassDuration, \* the fixed duration of break-glass
  BodyDurations,      \* duration_min values that arrive in a request body
  MaxNow,             \* bound on the clock
  MaxGrants,          \* bound on the privileged actions per session
  MaxFaults           \* bound on failed statements and crashes

ASSUME PimAssumption ==
  /\ None \notin Users \cup Procs \cup PimIds
  /\ DayLen \in Nat \ {0}
  /\ MaxDuration \in Nat /\ DefaultDuration \in Nat /\ BreakGlassDuration \in Nat
  /\ BodyDurations \subseteq Int
  /\ MaxNow \in Nat /\ MaxGrants \in Nat /\ MaxFaults \in Nat

VARIABLES
  now,          \* the wall clock, UTC
  user_id,      \* table pim_sessions, a function per column; None: no such row
  expires_at,
  ended_at,     \* "open" is NULL, else what ended the session
  action_count,
  insertedBy,   \* history: the goroutine that inserted the row
  pc,           \* where each handler goroutine is, and its locals:
  caller,       \*   the authenticated user
  target,       \*   the session it looked up or created
  expiry,       \*   the expiry it computed
  audit,        \* table audit_log: <<action_type, pim_session_id>>
  grants,       \* history: privileged actions let through per session
  faults        \* failed statements and crashes so far

rows == <<user_id, expires_at, ended_at, action_count, insertedBy>>
locals == <<pc, caller, target, expiry>>
vars == <<now, rows, locals, audit, grants, faults>>

----------------------------------------------------------------------------
(* Types *)

Labels == {"idle", "insert", "auditStart", "recheck", "update", "auditEnd", "count"}

AuditEntry == {"pim.session.started", "pim.session.ended"} \X PimIds

TypeOK ==
  /\ now \in Nat
  /\ user_id \in [PimIds -> Users \cup {None}]
  /\ expires_at \in [PimIds -> Nat]
  /\ ended_at \in [PimIds -> {"open", "manual", "overdue"}]
  /\ action_count \in [PimIds -> Nat]
  /\ insertedBy \in [PimIds -> Procs \cup {None}]
  /\ pc \in [Procs -> Labels]
  /\ caller \in [Procs -> Users \cup {None}]
  /\ target \in [Procs -> PimIds \cup {None}]
  /\ expiry \in [Procs -> Nat]
  /\ audit \subseteq AuditEntry
  /\ grants \in [PimIds -> Nat]
  /\ faults \in Nat

----------------------------------------------------------------------------
(* Queries *)

Day(t) == t \div DayLen

\* expires_at > CURRENT_TIMESTAMP as SQLite compares the two texts.
LaterText_Always(e, t) == e >= 0
LaterText(e, t) == Day(e) >= Day(t)

\* getActivePIMSessionByUserID returns any one of these rows.
ActiveIds_EndedToo(u) ==
  {i \in PimIds : user_id[i] = u /\ LaterText(expires_at[i], now)}
ActiveIds(u) ==
  {i \in PimIds : /\ user_id[i] = u
                  /\ ended_at[i] = "open"
                  /\ LaterText(expires_at[i], now)}

isValidDuration_NoLower(d) == d <= MaxDuration
isValidDuration(d) == d >= 1 /\ d <= MaxDuration

----------------------------------------------------------------------------
(* Steps of a handler *)

NoFault == UNCHANGED faults
Fault == faults < MaxFaults /\ faults' = faults + 1

Goto(p, label) == pc' = [pc EXCEPT ![p] = label]

\* Locals of a handler that has returned are dropped.
Return(p) ==
  /\ Goto(p, "idle")
  /\ caller' = [caller EXCEPT ![p] = None]
  /\ target' = [target EXCEPT ![p] = None]
  /\ expiry' = [expiry EXCEPT ![p] = 0]

\* GetActive succeeds for the handler p of user u and finds session i.
Found(p, u, i, label) ==
  /\ i \in ActiveIds(u)
  /\ Goto(p, label)
  /\ caller' = [caller EXCEPT ![p] = u]
  /\ target' = [target EXCEPT ![p] = i]
  /\ UNCHANGED expiry

\* Request: validation, then the look for a session that already runs.  The
\* code rejects only when the query succeeds: a failed query falls through.
RequestCheck_NoLookup(p, u, d) ==
  /\ pc[p] = "idle"
  /\ isValidDuration(d) /\ now + d <= MaxNow
  /\ NoFault
  /\ Goto(p, "insert")
  /\ caller' = [caller EXCEPT ![p] = u]
  /\ expiry' = [expiry EXCEPT ![p] = now + d]
  /\ UNCHANGED <<now, rows, target, audit, grants>>
RequestCheck(p, u, d) ==
  /\ pc[p] = "idle"
  /\ isValidDuration(d) /\ now + d <= MaxNow
  /\ \/ ActiveIds(u) = {} /\ NoFault
     \/ Fault
  /\ Goto(p, "insert")
  /\ caller' = [caller EXCEPT ![p] = u]
  /\ expiry' = [expiry EXCEPT ![p] = now + d]
  /\ UNCHANGED <<now, rows, target, audit, grants>>

\* POST /pim/request: an absent (zero) duration becomes the default.
RequestPIM(p, u) ==
  \E body \in BodyDurations :
    RequestCheck(p, u, IF body = 0 THEN DefaultDuration ELSE body)

\* POST /pim/break-glass: the same path with a fixed duration.
BreakGlass(p, u) == RequestCheck(p, u, BreakGlassDuration)

\* createPIMSession under a fresh UUID; an error returns to the caller.
CreatePIMSession(p) ==
  /\ pc[p] = "insert"
  /\ \/ /\ NoFault
        /\ \E i \in PimIds :
             /\ user_id[i] = None
             /\ user_id' = [user_id EXCEPT ![i] = caller[p]]
             /\ expires_at' = [expires_at EXCEPT ![i] = expiry[p]]
             /\ insertedBy' = [insertedBy EXCEPT ![i] = p]
             /\ target' = [target EXCEPT ![p] = i]
        /\ Goto(p, "auditStart")
        /\ UNCHANGED <<ended_at, action_count, caller, expiry>>
     \/ Fault /\ Return(p) /\ UNCHANGED rows
  /\ UNCHANGED <<now, audit, grants>>

\* logAudit after a start or an end; an error is only logged.
LogAudit(p, label, action) ==
  /\ pc[p] = label
  /\ \/ NoFault /\ audit' = audit \cup {<<action, target[p]>>}
     \/ Fault /\ UNCHANGED audit
  /\ Return(p)
  /\ UNCHANGED <<now, rows, grants>>

AuditStarted(p) == LogAudit(p, "auditStart", "pim.session.started")
AuditEnded(p) == LogAudit(p, "auditEnd", "pim.session.ended")

\* DELETE /pim/active: the handler looks the session up ...
EndPIM_SkipUpdate(p, u) ==
  /\ pc[p] = "idle"
  /\ \E i \in PimIds : Found(p, u, i, "auditEnd")
  /\ UNCHANGED <<now, rows, audit, grants, faults>>
EndPIM(p, u) ==
  /\ pc[p] = "idle"
  /\ \E i \in PimIds : Found(p, u, i, "recheck")
  /\ UNCHANGED <<now, rows, audit, grants, faults>>

\* ... and End looks it up again: gone, or another one, is an error.
EndRecheck(p) ==
  /\ pc[p] = "recheck"
  /\ \/ /\ target[p] \in ActiveIds(caller[p])
        /\ Goto(p, "update")
        /\ NoFault /\ UNCHANGED <<caller, target, expiry>>
     \/ /\ \/ ActiveIds(caller[p]) = {}
           \/ ActiveIds(caller[p]) \ {target[p]} # {}
        /\ NoFault /\ Return(p)
     \/ Fault /\ Return(p)
  /\ UNCHANGED <<now, rows, audit, grants>>

\* endPIMSession: no effect on a row that ended in the meantime; the caller
\* does not look at the number of rows.
EndPIMSession_NoAudit(p) ==
  /\ pc[p] = "update"
  /\ NoFault
  /\ ended_at' = [ended_at EXCEPT ![target[p]] = IF @ = "open" THEN "manual" ELSE @]
  /\ Return(p)
  /\ UNCHANGED <<now, user_id, expires_at, action_count, insertedBy, audit, grants>>
EndPIMSession(p) ==
  /\ pc[p] = "update"
  /\ \/ /\ NoFault
        /\ ended_at' =
             [ended_at EXCEPT ![target[p]] = IF @ = "open" THEN "manual" ELSE @]
        /\ Goto(p, "auditEnd") /\ UNCHANGED <<caller, target, expiry>>
     \/ Fault /\ Return(p) /\ UNCHANGED ended_at
  /\ UNCHANGED <<now, user_id, expires_at, action_count, insertedBy, audit, grants>>

\* CheckAndRecord, first half: an error or no row denies the action.
CheckActive(p, u) ==
  /\ pc[p] = "idle"
  /\ \E i \in PimIds : grants[i] < MaxGrants /\ Found(p, u, i, "count")
  /\ UNCHANGED <<now, rows, audit, grants, faults>>

\* CheckAndRecord, second half: the action is let through whatever becomes
\* of the counter (RecordAction's error is only logged).
RecordAction_EndedToo(p) ==
  /\ pc[p] = "count"
  /\ grants' = [grants EXCEPT ![target[p]] = @ + 1]
  /\ action_count' = [action_count EXCEPT ![target[p]] = @ + 1]
  /\ Return(p)
  /\ UNCHANGED <<now, user_id, expires_at, ended_at, insertedBy, audit, faults>>
RecordAction_NoCount(p) ==
  /\ pc[p] = "count"
  /\ grants' = [grants EXCEPT ![target[p]] = @ + 1]
  /\ Return(p)
  /\ UNCHANGED <<now, rows, audit, faults>>
RecordAction(p) ==
  /\ pc[p] = "count"
  /\ grants' = [grants EXCEPT ![target[p]] = @ + 1]
  /\ \/ /\ NoFault
        /\ action_count' = [action_count EXCEPT ![target[p]] =
                              IF ended_at[target[p]] = "open" THEN @ + 1 ELSE @]
     \/ Fault /\ UNCHANGED action_count
  /\ Return(p)
  /\ UNCHANGED <<now, user_id, expires_at, ended_at, insertedBy, audit>>

\* ExpireOverdue: one statement over the table.  Nothing in the server
\* schedules it, so no fairness is ever assumed of it.
ExpireOverdue ==
  /\ ended_at' = [i \in PimIds |->
                    IF /\ user_id[i] # None /\ ended_at[i] = "open"
                       /\ ~LaterText(expires_at[i], now)
                    THEN "overdue" ELSE ended_at[i]]
  /\ ended_at' # ended_at
  /\ UNCHANGED <<now, user_id, expires_at, action_count, insertedBy, locals,
                 audit, grants, faults>>

\* The process dies and restarts: handlers vanish, the tables stay.
Crash ==
  /\ Fault
  /\ \E p \in Procs : pc[p] # "idle"
  /\ pc' = [p \in Procs |-> "idle"]
  /\ caller' = [p \in Procs |-> None]
  /\ target' = [p \in Procs |-> None]
  /\ expiry' = [p \in Procs |-> 0]
  /\ UNCHANGED <<now, rows, audit, grants>>

Tick ==
  /\ now < MaxNow
  /\ now' = now + 1
  /\ UNCHANGED <<rows, locals, audit, grants, faults>>

----------------------------------------------------------------------------

Init ==
  /\ now = 0
  /\ user_id = [i \in PimIds |-> None]
  /\ expires_at = [i \in PimIds |-> 0]
  /\ ended_at = [i \in PimIds |-> "open"]
  /\ action_count = [i \in PimIds |-> 0]
  /\ insertedBy = [i \in PimIds |-> None]
  /\ pc = [p \in Procs |-> "idle"]
  /\ caller = [p \in Procs |-> None]
  /\ target = [p \in Procs |-> None]
  /\ expiry = [p \in Procs |-> 0]
  /\ audit = {}
  /\ grants = [i \in PimIds |-> 0]
  /\ faults = 0

Begin(p, u) ==
  \/ RequestPIM(p, u)
  \/ BreakGlass(p, u)
  \/ EndPIM(p, u)
  \/ CheckActive(p, u)

Continue(p) ==
  \/ CreatePIMSession(p)
  \/ AuditStarted(p)
  \/ EndRecheck(p)
  \/ EndPIMSession(p)
  \/ AuditEnded(p)
  \/ RecordAction(p)

Next ==
  \/ \E p \in Procs, u \in Users : Begin(p, u)
  \/ \E p \in Procs : Continue(p)
  \/ ExpireOverdue
  \/ Crash
  \/ Tick

Spec == Init /\ [][Next]_vars

----------------------------------------------------------------------------
(* Properties *)

Exists(i) == user_id[i] # None

\* Two sessions of one user that are active together were inserted by two
\* different goroutines: handlers that do not overlap never duplicate a
\* session.  The check-then-insert of Request gives no more than this, and a
\* failed look-up (err # nil falls through to the insert) not even this.
OnlyOverlapDuplicates ==
  faults = 0 =>
    \A u \in Users : \A i, j \in ActiveIds(u) :
      i # j => insertedBy[i] # insertedBy[j]

\* While a session is open its action_count is exactly the number of
\* privileged actions CheckAndRecord let through on it.
CountExactWhileOpen ==
  faults = 0 =>
    \A i \in PimIds : ended_at[i] = "open" => action_count[i] = grants[i]

\* Without failures every start and every manual end is in the audit log, or
\* the handler is about to write the entry.
AuditComplete ==
  faults = 0 =>
    \A i \in PimIds :
      /\ Exists(i) =>
           \/ <<"pim.session.started", i>> \in audit
           \/ \E p \in Procs : pc[p] = "auditStart" /\ target[p] = i
      /\ ended_at[i] = "manual" =>
           \/ <<"pim.session.ended", i>> \in audit
           \/ \E p \in Procs : pc[p] = "auditEnd" /\ target[p] = i

\* The log never claims a start or an end that did not happen, whatever fails.
AuditTruthful ==
  \A i \in PimIds :
    /\ <<"pim.session.started", i>> \in audit => Exists(i)
    /\ <<"pim.session.ended", i>> \in audit => ended_at[i] # "open"

\* A row that has ended is history: nothing of it changes again, late
\* increments and second ends included.
EndedFrozen ==
  [][\A i \in PimIds : ended_at[i] # "open" =>
       /\ ended_at'[i] = ended_at[i]
       /\ action_count'[i] = action_count[i]
       /\ user_id'[i] = user_id[i]
       /\ expires_at'[i] = expires_at[i]]_vars

Passes(p) == pc[p] = "idle" /\ pc'[p] = "count"

\* The privilege check honours a session for less than one day beyond its
\* expiry: the bound that the text comparison leaves.
OverrunBelowADay ==
  [][\A p \in Procs : Passes(p) => now < expires_at[target'[p]] + DayLen]_vars

\* What "time-boxed session" promises: the privilege check passes only before
\* expires_at.
GrantBeforeExpiry ==
  [][\A p \in Procs : Passes(p) => now < expires_at[target'[p]]]_vars

----------------------------------------------------------------------------
(* The inductive invariant of PimProofs *)

\* A handler beyond its look-up holds an existing row, and a row it is about
\* to report as ended has ended.
InFlight ==
  \A p \in Procs :
    /\ pc[p] = "insert" => caller[p] \in Users
    /\ pc[p] \in {"auditStart", "recheck", "update", "auditEnd", "count"} =>
         target[p] \in PimIds /\ Exists(target[p])
    /\ pc[p] = "auditEnd" => ended_at[target[p]] # "open"

\* A row has a goroutine that inserted it; no row, no history.
Unused ==
  \A i \in PimIds :
    /\ Exists(i) => insertedBy[i] \in Procs
    /\ ~Exists(i) => ended_at[i] = "open" /\ action_count[i] = 0 /\ grants[i] = 0

\* A goroutine about to insert owns none of its user's active rows.
PendingOwnsNone ==
  faults = 0 =>
    \A p \in Procs : pc[p] = "insert" =>
      \A i \in ActiveIds(caller[p]) : insertedBy[i] # p

PimInv ==
  /\ TypeOK
  /\ InFlight
  /\ Unused
  /\ PendingOwnsNone
  /\ OnlyOverlapDuplicates
  /\ CountExactWhileOpen
  /\ AuditTruthful
  /\ AuditComplete
=============================================================================
