----------------------------- MODULE UserAdmin -----------------------------
(***************************************************************************)
(* The setup wizard and user management: who is an administrator, and the  *)
(* promise that the panel never loses its last one (internal/setup,        *)
(* internal/users, internal/handler/setup.go).                             *)
(*                                                                         *)
(* A user row is named by its normalised e-mail address, which is UNIQUE;  *)
(* rows are never deleted.  Each action is one SQL statement of a handler  *)
(* goroutine; no handler opens a transaction.                              *)
(***************************************************************************)
EXTENDS Integers, FiniteSets

CONSTANTS
  Accounts,       \* e-mail addresses that may get an account
  AdminProcs,     \* handler goroutines that may run at the same time
  NoUser,
  MaxAdminFaults  \* bound on failed statements and crashes

ASSUME UserAdminAssumption ==
  /\ IsFiniteSet(Accounts)
  /\ NoUser \notin Accounts \cup AdminProcs
  /\ MaxAdminFaults \in Nat

VARIABLES
  role,         \* table users: role, "none" where there is no row
  is_active,    \* table users: is_active
  setupDone,    \* config row setup_completed = "true"
  adminToken,   \* users that may hold an access token claiming "admin"
  audit,        \* audit_log: <<action_type, resource>>
  adminPc, op,  \* a handler goroutine: where it is, the request it serves,
  target,       \*   the user it is about (admin_id in "complete")
  newRole,      \*   and the role it writes
  bySetup,      \* history: the goroutine that inserted the row as first admin
  overlapped,   \* history: an admin was removed while another goroutine stood
                \*   between its last-admin check and its write
  adminFaults

tables == <<role, is_active, setupDone, audit>>
adminLocals == <<adminPc, op, target, newRole>>
history == <<bySetup, overlapped>>
adminVars == <<tables, adminToken, adminLocals, history, adminFaults>>

----------------------------------------------------------------------------

Roles == {"admin", "viewer"}
AdminLabels == {"idle", "list", "insert", "status", "done", "read", "count", "write",
           "revoke", "audit"}
Ops == {"setup", "complete", "create", "role", "deactivate"}

\* The audited requests and the action_type they log.
ActionOf == [create |-> "user.created", role |-> "user.role_changed",
             deactivate |-> "user.deactivated"]
AuditEntry == {"user.created", "user.role_changed", "user.deactivated"} \X Accounts

AdminTypeOK ==
  /\ role \in [Accounts -> Roles \cup {"none"}]
  /\ is_active \in [Accounts -> BOOLEAN]
  /\ setupDone \in BOOLEAN
  /\ adminToken \subseteq Accounts
  /\ audit \subseteq AuditEntry
  /\ adminPc \in [AdminProcs -> AdminLabels]
  /\ op \in [AdminProcs -> Ops \cup {"none"}]
  /\ target \in [AdminProcs -> Accounts \cup {NoUser}]
  /\ newRole \in [AdminProcs -> Roles \cup {"none"}]
  /\ bySetup \in [Accounts -> AdminProcs \cup {NoUser}]
  /\ overlapped \in BOOLEAN
  /\ adminFaults \in Nat

ActiveAdmins == {u \in Accounts : role[u] = "admin" /\ is_active[u]}

----------------------------------------------------------------------------
(* Steps of a handler *)

AdminGoto(p, label) == adminPc' = [adminPc EXCEPT ![p] = label] /\ UNCHANGED <<op, target, newRole>>

AdminStart(p, label, request, u, r) ==
  /\ adminPc[p] = "idle"
  /\ adminPc' = [adminPc EXCEPT ![p] = label]
  /\ op' = [op EXCEPT ![p] = request]
  /\ target' = [target EXCEPT ![p] = u]
  /\ newRole' = [newRole EXCEPT ![p] = r]
  /\ UNCHANGED <<tables, adminToken, history>>

AdminReturn(p) ==
  /\ adminPc' = [adminPc EXCEPT ![p] = "idle"]
  /\ op' = [op EXCEPT ![p] = "none"]
  /\ target' = [target EXCEPT ![p] = NoUser]
  /\ newRole' = [newRole EXCEPT ![p] = "none"]

\* What lets a request through to the user routes: setupGuard, whose read has
\* to succeed, then a token whose claims say admin.  The users table is not
\* asked.
Authorised(requestor) == setupDone /\ requestor \in adminToken /\ UNCHANGED adminFaults

----------------------------------------------------------------------------
(* The setup wizard: public routes *)

\* IsCompleted says no: also when the row is there and the read of it fails.
NotCompleted ==
  \/ ~setupDone /\ UNCHANGED adminFaults
  \/ setupDone /\ adminFaults < MaxAdminFaults /\ adminFaults' = adminFaults + 1

\* POST /setup/admin: IsCompleted ...
CreateAdmin(p, u) == NotCompleted /\ AdminStart(p, "list", "setup", u, "admin")

\* ... then ListUsers: any admin row counts, a deactivated one too.
ListAdmins_ActiveSetup(p) ==
  /\ adminPc[p] = "list"
  /\ IF setupDone THEN AdminReturn(p) ELSE AdminGoto(p, "insert")
  /\ UNCHANGED <<tables, adminToken, history, adminFaults>>
ListAdmins(p) ==
  /\ adminPc[p] = "list"
  /\ IF \E u \in Accounts : role[u] = "admin" THEN AdminReturn(p) ELSE AdminGoto(p, "insert")
  /\ UNCHANGED <<tables, adminToken, history, adminFaults>>

\* createUser: the UNIQUE e-mail makes the insert fail on an existing row.
InsertUser(p) ==
  /\ adminPc[p] = "insert"
  /\ IF role[target[p]] = "none"
     THEN /\ role' = [role EXCEPT ![target[p]] = newRole[p]]
          /\ is_active' = [is_active EXCEPT ![target[p]] = TRUE]
          /\ bySetup' = [bySetup EXCEPT ![target[p]] = IF op[p] = "setup" THEN p ELSE @]
          /\ IF op[p] = "setup" THEN AdminReturn(p) ELSE AdminGoto(p, "audit")
     ELSE AdminReturn(p) /\ UNCHANGED <<role, is_active, bySetup>>
  /\ UNCHANGED <<setupDone, audit, adminToken, overlapped, adminFaults>>

\* POST /setup/complete: IsCompleted ...
CompleteSetup(p, adminID) == NotCompleted /\ AdminStart(p, "status", "complete", adminID, "none")

\* ... GetStatus wants an active admin ...
GetStatus(p) ==
  /\ adminPc[p] = "status"
  /\ IF ActiveAdmins # {} THEN AdminGoto(p, "done") ELSE AdminReturn(p)
  /\ UNCHANGED <<tables, adminToken, history, adminFaults>>

\* ... and setConfig writes the row.  updated_by references users: with an
\* unknown admin_id the insert fails, the error is dropped and the handler
\* still answers 200.  An empty one is NULL and passes.
SetConfig(p) ==
  /\ adminPc[p] = "done"
  /\ setupDone' = (setupDone \/ target[p] = NoUser \/ role[target[p]] # "none")
  /\ AdminReturn(p)
  /\ UNCHANGED <<role, is_active, audit, adminToken, history, adminFaults>>

----------------------------------------------------------------------------
(* User management: behind setupGuard and an admin token *)

\* POST /users.  The look for a duplicate only words the error: the insert
\* refuses an existing row anyway.
CreateUser(p, requestor, u, r) ==
  Authorised(requestor) /\ AdminStart(p, "insert", "create", u, r)

\* PUT /users/{id}/role: only a demotion is checked.
UpdateRole(p, requestor, u, r) ==
  /\ Authorised(requestor)
  /\ AdminStart(p, IF r = "viewer" THEN "read" ELSE "write", "role", u, r)

\* DELETE /users/{id}: never the own account.
Deactivate(p, requestor, u) ==
  Authorised(requestor) /\ u # requestor /\ AdminStart(p, "read", "deactivate", u, "none")

\* checkLastAdmin, first statement: getUserByID finds active users only.
ReadTarget(p) ==
  /\ adminPc[p] = "read"
  /\ \/ ~is_active[target[p]] /\ AdminReturn(p)
     \/ is_active[target[p]] /\ role[target[p]] = "admin" /\ AdminGoto(p, "count")
     \/ is_active[target[p]] /\ role[target[p]] # "admin" /\ AdminGoto(p, "write")
  /\ UNCHANGED <<tables, adminToken, history, adminFaults>>

\* checkLastAdmin, second statement: listUsers, counting active admins.
CountAdmins_OffByOne(p) ==
  /\ adminPc[p] = "count"
  /\ IF Cardinality(ActiveAdmins) < 1 THEN AdminReturn(p) ELSE AdminGoto(p, "write")
  /\ UNCHANGED <<tables, adminToken, history, adminFaults>>
CountAdmins(p) ==
  /\ adminPc[p] = "count"
  /\ IF Cardinality(ActiveAdmins) <= 1 THEN AdminReturn(p) ELSE AdminGoto(p, "write")
  /\ UNCHANGED <<tables, adminToken, history, adminFaults>>

\* A removal that the next write makes: what checkLastAdmin is there for.
Removing(p) == adminPc[p] = "write" /\ newRole[p] # "admin"

NoteOverlap(p) ==
  overlapped' = (overlapped \/ /\ Removing(p) /\ target[p] \in ActiveAdmins
                               /\ \E q \in AdminProcs \ {p} : Removing(q))

\* updateUserRole: ... AND is_active = 1; no row is "not found".
WriteRole_AnyRow(p) ==
  /\ adminPc[p] = "write" /\ op[p] = "role"
  /\ role' = [role EXCEPT ![target[p]] = newRole[p]]
  /\ AdminReturn(p)
  /\ NoteOverlap(p)
  /\ UNCHANGED <<is_active, setupDone, audit, adminToken, bySetup, adminFaults>>
WriteRole(p) ==
  /\ adminPc[p] = "write" /\ op[p] = "role"
  /\ IF is_active[target[p]]
     THEN role' = [role EXCEPT ![target[p]] = newRole[p]] /\ AdminGoto(p, "audit")
     ELSE AdminReturn(p) /\ UNCHANGED role
  /\ NoteOverlap(p)
  /\ UNCHANGED <<is_active, setupDone, audit, adminToken, bySetup, adminFaults>>

\* deactivateUser.
WriteInactive_NoRevoke(p) ==
  /\ adminPc[p] = "write" /\ op[p] = "deactivate"
  /\ is_active' = [is_active EXCEPT ![target[p]] = FALSE]
  /\ AdminReturn(p)
  /\ NoteOverlap(p)
  /\ UNCHANGED <<role, setupDone, audit, adminToken, bySetup, adminFaults>>
WriteInactive(p) ==
  /\ adminPc[p] = "write" /\ op[p] = "deactivate"
  /\ is_active' = [is_active EXCEPT ![target[p]] = FALSE]
  /\ AdminGoto(p, "revoke")
  /\ NoteOverlap(p)
  /\ UNCHANGED <<role, setupDone, audit, adminToken, bySetup, adminFaults>>

\* revokeAllUserSessions: the sessions table is module Sessions.  Access tokens
\* outlive it, since middleware.Require looks at the JWT alone.
RevokeSessions(p) ==
  /\ adminPc[p] = "revoke" /\ AdminGoto(p, "audit")
  /\ UNCHANGED <<tables, adminToken, history, adminFaults>>

LogAudit_RequestName(p) ==
  /\ adminPc[p] = "audit"
  /\ audit' = audit \cup {<<op[p], target[p]>>}
  /\ AdminReturn(p)
  /\ UNCHANGED <<role, is_active, setupDone, adminToken, history, adminFaults>>
LogAudit(p) ==
  /\ adminPc[p] = "audit"
  /\ audit' = audit \cup {<<ActionOf[op[p]], target[p]>>}
  /\ AdminReturn(p)
  /\ UNCHANGED <<role, is_active, setupDone, adminToken, history, adminFaults>>

----------------------------------------------------------------------------
(* Tokens and failures *)

\* createSession, from Login or Refresh, copies the role into the claims.  A
\* token enables requests and nothing else, so that its expiry, which only
\* disables them, adds no behaviour a safety property could see.
IssueToken(u) ==
  /\ u \in ActiveAdmins \ adminToken
  /\ adminToken' = adminToken \cup {u}
  /\ UNCHANGED <<tables, adminLocals, history, adminFaults>>

\* A statement fails: the handler returns, but a failed revocation and a failed
\* audit entry are only logged.
AdminFails(p) ==
  /\ adminPc[p] # "idle" /\ adminFaults < MaxAdminFaults
  /\ adminFaults' = adminFaults + 1
  /\ IF adminPc[p] = "revoke" THEN AdminGoto(p, "audit") ELSE AdminReturn(p)
  /\ UNCHANGED <<tables, adminToken, history>>

\* The process dies and restarts: handlers vanish, tables and tokens stay.
AdminCrash ==
  /\ adminFaults < MaxAdminFaults /\ \E p \in AdminProcs : adminPc[p] # "idle"
  /\ adminFaults' = adminFaults + 1
  /\ adminPc' = [p \in AdminProcs |-> "idle"]
  /\ op' = [p \in AdminProcs |-> "none"]
  /\ target' = [p \in AdminProcs |-> NoUser]
  /\ newRole' = [p \in AdminProcs |-> "none"]
  /\ UNCHANGED <<tables, adminToken, history>>

----------------------------------------------------------------------------

AdminInit ==
  /\ role = [u \in Accounts |-> "none"]
  /\ is_active = [u \in Accounts |-> FALSE]
  /\ setupDone = FALSE
  /\ adminToken = {}
  /\ audit = {}
  /\ adminPc = [p \in AdminProcs |-> "idle"]
  /\ op = [p \in AdminProcs |-> "none"]
  /\ target = [p \in AdminProcs |-> NoUser]
  /\ newRole = [p \in AdminProcs |-> "none"]
  /\ bySetup = [u \in Accounts |-> NoUser]
  /\ overlapped = FALSE
  /\ adminFaults = 0

AdminBegin(p) ==
  \/ \E u \in Accounts : CreateAdmin(p, u)
  \/ \E id \in Accounts \cup {NoUser} : CompleteSetup(p, id)
  \/ \E a, u \in Accounts, r \in Roles : CreateUser(p, a, u, r)
  \/ \E a, u \in Accounts, r \in Roles : UpdateRole(p, a, u, r)
  \/ \E a, u \in Accounts : Deactivate(p, a, u)

AdminResume(p) ==
  \/ ListAdmins(p)
  \/ InsertUser(p)
  \/ GetStatus(p)
  \/ SetConfig(p)
  \/ ReadTarget(p)
  \/ CountAdmins(p)
  \/ WriteRole(p)
  \/ WriteInactive(p)
  \/ RevokeSessions(p)
  \/ LogAudit(p)
  \/ AdminFails(p)

AdminNext ==
  \/ \E p \in AdminProcs : AdminBegin(p) \/ AdminResume(p)
  \/ \E u \in Accounts : IssueToken(u)
  \/ AdminCrash

AdminSpec == AdminInit /\ [][AdminNext]_adminVars

----------------------------------------------------------------------------
(* Properties *)

\* Once setup is complete there is an active administrator, unless two removals
\* overlapped: checkLastAdmin protects the last admin against any sequence of
\* requests, stale tokens and failures included, and gives way only to a
\* concurrent one.
AdminRemains == setupDone /\ ~overlapped => ActiveAdmins # {}

\* A goroutine creates at most one first admin: two wizard admins come only from
\* overlapping POST /setup/admin requests.
OneFirstAdminEach ==
  ~overlapped =>
    \A u, v \in Accounts : bySetup[u] # NoUser /\ bySetup[u] = bySetup[v] => u = v

\* An account that was deactivated stays as it is: a role change or an insert
\* that checked before the deactivation does not touch it afterwards.
DeactivatedFrozen ==
  [][\A u \in Accounts : role[u] # "none" /\ ~is_active[u] =>
       ~is_active'[u] /\ role'[u] = role[u]]_adminVars

\* A deactivation, or the creation of an account, is in the audit log, or a
\* goroutine is on the way to log it.
DeactivationLogged(u) ==
  \/ <<"user.deactivated", u>> \in audit
  \/ \E p \in AdminProcs : /\ adminPc[p] \in {"revoke", "audit"}
                            /\ op[p] = "deactivate" /\ target[p] = u
CreationLogged(u) ==
  \/ <<"user.created", u>> \in audit
  \/ \E p \in AdminProcs : adminPc[p] = "audit" /\ op[p] = "create" /\ target[p] = u

\* Without failures no deactivation and no account that user management created
\* goes unlogged, whatever runs between the write and its audit entry.
AdminAuditComplete ==
  adminFaults = 0 =>
    \A u \in Accounts :
      /\ role[u] # "none" /\ ~is_active[u] => DeactivationLogged(u)
      /\ role[u] # "none" /\ bySetup[u] = NoUser => CreationLogged(u)

\* What "last-admin protection" says: an installation in use always has an
\* active administrator.
LastAdminKept == setupDone => ActiveAdmins # {}

----------------------------------------------------------------------------
(* The inductive invariant of UserAdminProofs *)

\* What the locals of a goroutine hold at each label.
AdminLocals ==
  \A p \in AdminProcs :
    /\ adminPc[p] \in {"list", "insert", "read", "count", "write", "revoke", "audit"} =>
         target[p] \in Accounts
    /\ adminPc[p] = "list" => op[p] = "setup" /\ newRole[p] = "admin"
    /\ adminPc[p] = "insert" =>
         \/ op[p] = "setup" /\ newRole[p] = "admin"
         \/ op[p] = "create" /\ newRole[p] \in Roles
    /\ adminPc[p] \in {"read", "count", "write"} =>
         \/ op[p] = "role" /\ newRole[p] \in Roles
         \/ op[p] = "deactivate" /\ newRole[p] = "none"
    /\ adminPc[p] = "revoke" => op[p] = "deactivate"
    /\ adminPc[p] = "audit" => op[p] \in {"create", "role", "deactivate"}

\* Only rows are active.
AccountRows == \A u \in Accounts : is_active[u] => role[u] # "none"

\* Until setup is complete only the wizard runs, and nobody removes anyone.
WizardAlone ==
  ~setupDone =>
    \A p \in AdminProcs :
      /\ adminPc[p] \in {"idle", "list", "insert", "status", "done"}
      /\ adminPc[p] = "insert" => op[p] = "setup"
      /\ adminPc[p] = "done" => ActiveAdmins # {}

\* There is an administrator from the first one that the wizard inserts.
AdminSinceFirst ==
  ~overlapped /\ (\E u \in Accounts : bySetup[u] # NoUser) => ActiveAdmins # {}

\* A goroutine past its last-admin check leaves somebody behind.
OtherAdminLeft ==
  setupDone /\ ~overlapped =>
    \A p \in AdminProcs : Removing(p) => ActiveAdmins \ {target[p]} # {}

\* A goroutine about to insert the first admin has not inserted one before.
FirstAdminPending ==
  ~overlapped =>
    \A p \in AdminProcs : adminPc[p] = "insert" /\ op[p] = "setup" =>
      \A u \in Accounts : bySetup[u] # p

UserAdminInv ==
  /\ AdminTypeOK
  /\ AdminLocals
  /\ AccountRows
  /\ WizardAlone
  /\ AdminSinceFirst
  /\ AdminRemains
  /\ OtherAdminLeft
  /\ FirstAdminPending
  /\ OneFirstAdminEach
  /\ AdminAuditComplete
=============================================================================
