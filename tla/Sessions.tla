------------------------------ MODULE Sessions ------------------------------
(***************************************************************************)
(* Login sessions and their tokens: login, refresh with rotation, logout,  *)
(* remote logout and the deactivation of an account (internal/auth,        *)
(* internal/middleware, internal/users).                                   *)
(*                                                                         *)
(* A session id stands for its row and for the pair of tokens issued with  *)
(* it: the access token is a JWT that is checked by signature and expiry   *)
(* alone, the refresh token is looked up in the row.  Each action is one   *)
(* SQL statement of a handler goroutine.  Audit entries of logins are left *)
(* out: nothing here reads them.                                           *)
(***************************************************************************)
EXTENDS Integers, FiniteSets

CONSTANTS
  Users,       \* accounts
  Procs,       \* handler goroutines that may run at the same time
  SessionIds,  \* the UUIDs the run can draw (bounds the table)
  None,
  AccessTTL,   \* lifetime of an access token
  RefreshTTL,  \* lifetime of a refresh token
  PendingTTL,  \* lifetime of the token handed out before the second factor
  MaxNow,      \* bound on the clock
  MaxFaults    \* bound on failed statements and crashes

ASSUME SessionsAssumption ==
  /\ None \notin Users \cup Procs \cup SessionIds \cup Int
  /\ AccessTTL \in Nat /\ RefreshTTL \in Nat /\ PendingTTL \in Nat
  /\ MaxNow \in Nat /\ MaxFaults \in Nat

VARIABLES
  now,
  active,      \* table users: is_active
  pending,     \* what is left of the life of a user's latest mfa_pending token
  user_id,     \* table sessions, a function per column; None: no such row
  issued_at,   \* when the tokens were issued; both expiries follow from it
  revoked_at,  \* None is NULL
  parent,      \* history: the session whose refresh token paid for this one
  insertedBy,  \* history: the goroutine that inserted the row
  late,        \* history: inserted when its user was already deactivated
  pc,          \* a handler goroutine: where it is,
  caller,      \*   the user it works for,
  source,      \*   the session it looked up,
  issued,      \*   and the issue time of the tokens it is about to store
  faults

rows == <<user_id, issued_at, revoked_at, parent, insertedBy, late>>
locals == <<pc, caller, source, issued>>
vars == <<now, active, pending, rows, locals, faults>>

----------------------------------------------------------------------------

Labels == {"idle", "user", "rotate", "insert", "revoke", "deactivate", "revokeAll"}

TypeOK ==
  /\ now \in Nat
  /\ active \in [Users -> BOOLEAN]
  /\ pending \in [Users -> Nat]
  /\ user_id \in [SessionIds -> Users \cup {None}]
  /\ issued_at \in [SessionIds -> Nat]
  /\ revoked_at \in [SessionIds -> Nat \cup {None}]
  /\ parent \in [SessionIds -> SessionIds \cup {None}]
  /\ insertedBy \in [SessionIds -> Procs \cup {None}]
  /\ late \in [SessionIds -> BOOLEAN]
  /\ pc \in [Procs -> Labels]
  /\ caller \in [Procs -> Users \cup {None}]
  /\ source \in [Procs -> SessionIds \cup {None}]
  /\ issued \in [Procs -> Nat]
  /\ faults \in Nat

Exists(s) == user_id[s] # None
Live(s) == Exists(s) /\ revoked_at[s] = None

\* middleware.Require with ValidateAccessToken: a signature and an expiry, no
\* look at the row.
Accepted_Leeway(s) == Exists(s) /\ now <= issued_at[s] + AccessTTL
Accepted(s) == Exists(s) /\ now < issued_at[s] + AccessTTL

----------------------------------------------------------------------------
(* Steps of a handler *)

Start(p, label, u, s) ==
  /\ pc[p] = "idle"
  /\ pc' = [pc EXCEPT ![p] = label]
  /\ caller' = [caller EXCEPT ![p] = u]
  /\ source' = [source EXCEPT ![p] = s]
  /\ UNCHANGED <<now, active, pending, rows, issued, faults>>

Goto(p, label) ==
  pc' = [pc EXCEPT ![p] = label] /\ UNCHANGED <<caller, source, issued>>

Return(p) ==
  /\ pc' = [pc EXCEPT ![p] = "idle"]
  /\ caller' = [caller EXCEPT ![p] = None]
  /\ source' = [source EXCEPT ![p] = None]
  /\ issued' = [issued EXCEPT ![p] = 0]

\* IssueTokenPair, run before the insert: both expiries count from here.
IssueTokenPair_Backdated(p) ==
  /\ pc' = [pc EXCEPT ![p] = "insert"]
  /\ issued' = [issued EXCEPT ![p] = now - AccessTTL]
IssueTokenPair(p) ==
  /\ pc' = [pc EXCEPT ![p] = "insert"]
  /\ issued' = [issued EXCEPT ![p] = now]

\* Login, or its MFA step: the user row is read once, active, and the session
\* is created after the remaining checks.
Login(p, u) ==
  /\ pc[p] = "idle" /\ active[u]
  /\ IssueTokenPair(p)
  /\ caller' = [caller EXCEPT ![p] = u]
  /\ UNCHANGED <<now, active, pending, rows, source, faults>>

\* Refresh: getSessionByRefreshTokenHash finds rows that are not revoked; the
\* expiry is then compared as a time ...
Refresh(p, s) ==
  /\ Live(s) /\ now <= issued_at[s] + RefreshTTL
  /\ Start(p, "user", user_id[s], s)

\* ... getUserByID wants an active user ...
ReadUser_AnyActive(p) ==
  /\ pc[p] = "user"
  /\ Goto(p, "rotate")
  /\ UNCHANGED <<now, active, pending, rows, faults>>
ReadUser(p) ==
  /\ pc[p] = "user"
  /\ IF active[caller[p]] THEN Goto(p, "rotate") ELSE Return(p)
  /\ UNCHANGED <<now, active, pending, rows, faults>>

\* revokeSession: no "IS NULL", a second revocation moves the time.
SetRevoked(s) == revoked_at' = [revoked_at EXCEPT ![s] = now]

\* ... the old session is revoked, an error ignored, and new tokens issued.
Rotate_KeepOld(p) ==
  /\ pc[p] = "rotate"
  /\ IssueTokenPair(p)
  /\ UNCHANGED <<now, active, pending, rows, caller, source, faults>>
Rotate(p) ==
  /\ pc[p] = "rotate"
  /\ \/ SetRevoked(source[p]) /\ UNCHANGED faults
     \/ faults < MaxFaults /\ faults' = faults + 1 /\ UNCHANGED revoked_at
  /\ IssueTokenPair(p)
  /\ UNCHANGED <<now, active, pending, user_id, issued_at, parent, insertedBy, late, caller, source>>

\* createSession: the row is inserted whatever happened to the user since.
CreateSession(p) ==
  /\ pc[p] = "insert"
  /\ \E s \in SessionIds :
       /\ user_id[s] = None
       /\ user_id' = [user_id EXCEPT ![s] = caller[p]]
       /\ issued_at' = [issued_at EXCEPT ![s] = issued[p]]
       /\ parent' = [parent EXCEPT ![s] = source[p]]
       /\ insertedBy' = [insertedBy EXCEPT ![s] = p]
       /\ late' = [late EXCEPT ![s] = ~active[caller[p]]]
  /\ Return(p)
  /\ UNCHANGED <<now, active, pending, revoked_at, faults>>

\* ... or, when the account has a second factor, a token that says so.
AskSecondFactor(p) ==
  /\ pc[p] = "insert" /\ source[p] = None
  /\ pending' = [pending EXCEPT ![caller[p]] = PendingTTL]
  /\ Return(p)
  /\ UNCHANGED <<now, active, rows, faults>>

\* POST /auth/logout: a valid access token whose row is not revoked.  (For an
\* mfa_pending token there is no row: the handler answers, and changes nothing.)
Logout(p, s) == Accepted(s) /\ Live(s) /\ Start(p, "revoke", user_id[s], s)

\* DELETE /auth/sessions/{id}: the caller's own unrevoked sessions are listed,
\* expired ones up to a day longer than they live (a text comparison, as in Pim).
\* middleware.Require asks for no role: an mfa_pending token is as good as one of
\* a session.
RevokeSession(p, s) ==
  /\ Live(s)
  /\ pending[user_id[s]] > 0 \/ \E t \in SessionIds : Accepted(t) /\ user_id[t] = user_id[s]
  /\ Start(p, "revoke", user_id[s], s)

\* Both end in revokeSession.
Revoke(p) ==
  /\ pc[p] = "revoke"
  /\ SetRevoked(source[p])
  /\ Return(p)
  /\ UNCHANGED <<now, active, pending, user_id, issued_at, parent, insertedBy, late, faults>>

\* users.Deactivate after its checks (module UserAdmin): deactivateUser ...
BeginDeactivate(p, u) == active[u] /\ Start(p, "deactivate", u, None)

DeactivateUser_NoRevoke(p) ==
  /\ pc[p] = "deactivate"
  /\ active' = [active EXCEPT ![caller[p]] = FALSE]
  /\ Return(p)
  /\ UNCHANGED <<now, pending, rows, faults>>
DeactivateUser(p) ==
  /\ pc[p] = "deactivate"
  /\ active' = [active EXCEPT ![caller[p]] = FALSE]
  /\ Goto(p, "revokeAll")
  /\ UNCHANGED <<now, pending, rows, faults>>

\* ... then revokeAllUserSessions, in one statement.
RevokeAll(p) ==
  /\ pc[p] = "revokeAll"
  /\ revoked_at' = [s \in SessionIds |->
                      IF Live(s) /\ user_id[s] = caller[p] THEN now ELSE revoked_at[s]]
  /\ Return(p)
  /\ UNCHANGED <<now, active, pending, user_id, issued_at, parent, insertedBy, late, faults>>

\* A statement other than the rotation fails: the handler answers an error, or
\* (revokeAll) logs it; nothing is written.
StatementFails(p) ==
  /\ pc[p] \notin {"idle", "rotate"} /\ faults < MaxFaults
  /\ faults' = faults + 1
  /\ Return(p)
  /\ UNCHANGED <<now, active, pending, rows>>

\* The process dies and restarts: handlers vanish, rows and tokens stay.
Crash ==
  /\ faults < MaxFaults /\ \E p \in Procs : pc[p] # "idle"
  /\ faults' = faults + 1
  /\ pc' = [p \in Procs |-> "idle"]
  /\ caller' = [p \in Procs |-> None]
  /\ source' = [p \in Procs |-> None]
  /\ issued' = [p \in Procs |-> 0]
  /\ UNCHANGED <<now, active, pending, rows>>

Tick ==
  /\ now < MaxNow
  /\ now' = now + 1
  /\ pending' = [u \in Users |-> IF pending[u] > 0 THEN pending[u] - 1 ELSE 0]
  /\ UNCHANGED <<active, rows, locals, faults>>

----------------------------------------------------------------------------

Init ==
  /\ now = 0
  /\ active = [u \in Users |-> TRUE]
  /\ pending = [u \in Users |-> 0]
  /\ user_id = [s \in SessionIds |-> None]
  /\ issued_at = [s \in SessionIds |-> 0]
  /\ revoked_at = [s \in SessionIds |-> None]
  /\ parent = [s \in SessionIds |-> None]
  /\ insertedBy = [s \in SessionIds |-> None]
  /\ late = [s \in SessionIds |-> FALSE]
  /\ pc = [p \in Procs |-> "idle"]
  /\ caller = [p \in Procs |-> None]
  /\ source = [p \in Procs |-> None]
  /\ issued = [p \in Procs |-> 0]
  /\ faults = 0

Begin(p) ==
  \/ \E u \in Users : Login(p, u)
  \/ \E s \in SessionIds : Refresh(p, s)
  \/ \E s \in SessionIds : Logout(p, s)
  \/ \E s \in SessionIds : RevokeSession(p, s)
  \/ \E u \in Users : BeginDeactivate(p, u)

Continue(p) ==
  \/ ReadUser(p)
  \/ Rotate(p)
  \/ CreateSession(p)
  \/ AskSecondFactor(p)
  \/ Revoke(p)
  \/ DeactivateUser(p)
  \/ RevokeAll(p)
  \/ StatementFails(p)

Next ==
  \/ \E p \in Procs : Begin(p) \/ Continue(p)
  \/ Crash
  \/ Tick

Spec == Init /\ [][Next]_vars

----------------------------------------------------------------------------
(* Properties *)

\* A refresh token that was exchanged is spent: its session is revoked before
\* the successor exists, whoever else works on either of them.
RotatedIsRevoked ==
  faults = 0 =>
    \A s \in SessionIds : parent[s] # None => revoked_at[parent[s]] # None

\* One refresh token pays for two sessions only when two goroutines exchange it
\* at the same time: rotation holds for any sequence of requests.
ForkNeedsOverlap ==
  faults = 0 =>
    \A s, t \in SessionIds :
      parent[s] # None /\ parent[s] = parent[t] /\ s # t => insertedBy[s] # insertedBy[t]

\* When the deactivation of an account has run to its end, a session of that
\* account that is still live was inserted after is_active = 0: it belongs to a
\* login or refresh that had read the user before.
OnlyStragglersSurvive ==
  faults = 0 =>
    \A s \in SessionIds :
      Live(s) /\ ~active[user_id[s]] =>
        \/ late[s]
        \/ \E p \in Procs : pc[p] = "revokeAll" /\ caller[p] = user_id[s]

\* Such a straggler is the last of its line: nothing renews it, even when the
\* revocation failed or the server restarted in between.
StragglersEnd ==
  \A s \in SessionIds : parent[s] # None => ~late[parent[s]]

\* What is left of "server-side invalidation" (RevokedRefused below): a revoked
\* session's access token is accepted for less than one token lifetime after the
\* revocation.
RevokedDiesWithToken ==
  \A s \in SessionIds :
    Accepted(s) /\ revoked_at[s] # None => now < revoked_at[s] + AccessTTL

\* "JWT with short TTL (15 min) + server-side invalidation" (README.md:93): the
\* access token of a revoked session is not accepted any more.
RevokedRefused ==
  \A s \in SessionIds : revoked_at[s] # None => ~Accepted(s)

----------------------------------------------------------------------------
(* The inductive invariant of SessionsProofs *)

\* What the locals of a goroutine hold at each label.
LocalsInv ==
  \A p \in Procs :
    /\ pc[p] = "idle" => source[p] = None
    /\ pc[p] # "idle" => caller[p] \in Users
    /\ pc[p] \in {"user", "rotate", "revoke"} => source[p] \in SessionIds
    /\ pc[p] \in {"user", "rotate", "revoke", "insert"} /\ source[p] # None =>
         user_id[source[p]] = caller[p]
    /\ issued[p] <= now

\* Tokens are issued before they are revoked, both in the past; what is not a
\* row has no history.
RowsInv ==
  \A s \in SessionIds :
    /\ issued_at[s] <= now
    /\ revoked_at[s] # None => issued_at[s] <= revoked_at[s] /\ revoked_at[s] <= now
    /\ ~Exists(s) => /\ revoked_at[s] = None /\ parent[s] = None /\ ~late[s]
    /\ parent[s] # None => Exists(parent[s])

\* Without failures a goroutine past the rotation has revoked what it exchanges.
PendingRotated ==
  faults = 0 =>
    \A p \in Procs : pc[p] = "insert" /\ source[p] # None => revoked_at[source[p]] # None

\* ... and one on the way to it has not exchanged that token before.
PendingFirst ==
  faults = 0 =>
    \A p \in Procs : pc[p] \in {"user", "rotate", "insert"} /\ source[p] # None =>
      \A t \in SessionIds : parent[t] = source[p] => insertedBy[t] # p

\* Stragglers belong to deactivated users, and a goroutine that has found its
\* user active does not work on one.
LateInv ==
  /\ \A s \in SessionIds : late[s] => ~active[user_id[s]]
  /\ \A p \in Procs : pc[p] \in {"rotate", "insert"} /\ source[p] # None => ~late[source[p]]

SessionsInv ==
  /\ TypeOK
  /\ LocalsInv
  /\ RowsInv
  /\ PendingRotated /\ RotatedIsRevoked
  /\ PendingFirst /\ ForkNeedsOverlap
  /\ LateInv /\ StragglersEnd /\ OnlyStragglersSurvive
  /\ RevokedDiesWithToken
=============================================================================
