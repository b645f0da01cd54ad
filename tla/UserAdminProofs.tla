-------------------------- MODULE UserAdminProofs --------------------------
(***************************************************************************)
(* Proofs about the setup wizard and user management, for every finite set *)
(* of addresses, every set of goroutines and every number of failures.     *)
(***************************************************************************)
EXTENDS UserAdmin, FiniteSetTheorems, TLAPS

USE UserAdminAssumption

----------------------------------------------------------------------------
(* Type correctness *)

Typed == AdminTypeOK /\ AdminLocals /\ AccountRows

\* The ways a request starts: the first label and the locals it sets.
Opening(label, request, u, r) ==
  \/ label = "list" /\ request = "setup" /\ u \in Accounts /\ r = "admin"
  \/ label = "status" /\ request = "complete" /\ u \in Accounts \cup {NoUser} /\ r = "none"
  \/ label = "insert" /\ request = "create" /\ u \in Accounts /\ r \in Roles /\ setupDone
  \/ label = "read" /\ request = "role" /\ u \in Accounts /\ r = "viewer" /\ setupDone
  \/ label = "write" /\ request = "role" /\ u \in Accounts /\ r = "admin" /\ setupDone
  \/ label = "read" /\ request = "deactivate" /\ u \in Accounts /\ r = "none" /\ setupDone

\* Every request of the wizard and of user management opens in one of them.
LEMMA BeginOpens ==
  ASSUME NEW p \in AdminProcs, AdminBegin(p)
  PROVE  \E label, request, u, r :
           /\ Opening(label, request, u, r) /\ AdminStart(p, label, request, u, r)
           /\ adminFaults' \in {adminFaults, adminFaults + 1}
<1>1. CASE \E u \in Accounts : CreateAdmin(p, u)
  BY <1>1 DEF CreateAdmin, NotCompleted, Opening
<1>2. CASE \E id \in Accounts \cup {NoUser} : CompleteSetup(p, id)
  BY <1>2 DEF CompleteSetup, NotCompleted, Opening
<1>3. CASE \E a, u \in Accounts, r \in Roles : CreateUser(p, a, u, r)
  BY <1>3 DEF CreateUser, Authorised, Opening
<1>4. CASE \E a, u \in Accounts, r \in Roles : UpdateRole(p, a, u, r)
  <2>1. PICK a \in Accounts, u \in Accounts, r \in Roles : UpdateRole(p, a, u, r)
    BY <1>4
  <2>2. CASE r = "viewer"
    BY <2>1, <2>2 DEF UpdateRole, Authorised, Opening
  <2>3. CASE r = "admin"
    BY <2>1, <2>3 DEF UpdateRole, Authorised, Opening
  <2> QED BY <2>2, <2>3 DEF Roles
<1>5. CASE \E a, u \in Accounts : Deactivate(p, a, u)
  BY <1>5 DEF Deactivate, Authorised, Opening
<1> QED
  BY <1>1, <1>2, <1>3, <1>4, <1>5 DEF AdminBegin

\* A step of the wizard or of user management keeps tables and locals typed.
LEMMA TypedStep == Typed /\ [AdminNext]_adminVars => Typed'
<1> SUFFICES ASSUME Typed, [AdminNext]_adminVars PROVE Typed'
  OBVIOUS
<1> USE DEF Typed, AdminTypeOK, AdminLocals, AccountRows, AdminLabels, Ops, Roles, AuditEntry, tables, history,
            adminLocals, AdminGoto, AdminReturn, NoteOverlap
<1>1. ASSUME NEW p \in AdminProcs, AdminBegin(p) PROVE Typed'
  <2>1. PICK label, request, u, r :
           /\ Opening(label, request, u, r) /\ AdminStart(p, label, request, u, r)
           /\ adminFaults' \in {adminFaults, adminFaults + 1}
    BY <1>1, BeginOpens
  <2> QED BY <2>1 DEF Opening, AdminStart
<1>2. ASSUME NEW p \in AdminProcs, AdminResume(p) PROVE Typed'
  <2>1. CASE ListAdmins(p)
    BY <2>1 DEF ListAdmins
  <2>2. CASE InsertUser(p)
    <3>1. CASE role[target[p]] = "none"
      <4>1. AdminTypeOK'
        <5>1. is_active' \in [Accounts -> BOOLEAN]
          BY <2>2, <3>1 DEF InsertUser
        <5>2. role' \in [Accounts -> Roles \cup {"none"}]
          BY <2>2, <3>1 DEF InsertUser
        <5>3. bySetup' \in [Accounts -> AdminProcs \cup {NoUser}]
          BY <2>2, <3>1 DEF InsertUser
        <5>4. /\ adminPc' \in [AdminProcs -> AdminLabels]
              /\ op' \in [AdminProcs -> Ops \cup {"none"}]
              /\ target' \in [AdminProcs -> Accounts \cup {NoUser}]
              /\ newRole' \in [AdminProcs -> Roles \cup {"none"}]
          BY <2>2, <3>1 DEF InsertUser
        <5> QED BY <2>2, <5>1, <5>2, <5>3, <5>4 DEF InsertUser
      <4>2. AdminLocals'
        BY <2>2, <3>1 DEF InsertUser
      <4>3. AccountRows'
        BY <2>2, <3>1 DEF InsertUser
      <4> QED BY <4>1, <4>2, <4>3
    <3>2. CASE role[target[p]] # "none"
      BY <2>2, <3>2 DEF InsertUser
    <3> QED BY <3>1, <3>2
  <2>3. CASE GetStatus(p)
    BY <2>3 DEF GetStatus
  <2>4. CASE SetConfig(p)
    BY <2>4 DEF SetConfig
  <2>5. CASE ReadTarget(p)
    BY <2>5 DEF ReadTarget
  <2>6. CASE CountAdmins(p)
    BY <2>6 DEF CountAdmins
  <2>7. CASE WriteRole(p)
    BY <2>7 DEF WriteRole
  <2>8. CASE WriteInactive(p)
    BY <2>8 DEF WriteInactive
  <2>9. CASE RevokeSessions(p)
    BY <2>9 DEF RevokeSessions
  <2>10. CASE LogAudit(p)
    <3>1. ActionOf[op[p]] \in {"user.created", "user.role_changed", "user.deactivated"}
      BY <2>10 DEF LogAudit, ActionOf
    <3> QED BY <2>10, <3>1 DEF LogAudit
  <2>11. CASE AdminFails(p)
    BY <2>11 DEF AdminFails
  <2> QED BY <1>2, <2>1, <2>2, <2>3, <2>4, <2>5, <2>6, <2>7, <2>8, <2>9, <2>10, <2>11
          DEF AdminResume
<1>3. ASSUME NEW u \in Accounts, IssueToken(u) PROVE Typed'
  BY <1>3 DEF IssueToken
<1>4. CASE AdminCrash
  BY <1>4 DEF AdminCrash
<1>5. CASE UNCHANGED adminVars
  BY <1>5 DEF adminVars
<1> QED
  BY <1>1, <1>2, <1>3, <1>4, <1>5 DEF AdminNext

\* The empty database is well typed.
LEMMA TypedInit == AdminInit => Typed
<1> SUFFICES ASSUME AdminInit PROVE Typed
  OBVIOUS
<1>1. is_active \in [Accounts -> BOOLEAN]
  BY Zenon DEF AdminInit
<1>2. /\ setupDone \in BOOLEAN /\ overlapped \in BOOLEAN /\ adminFaults \in Nat
      /\ adminToken \subseteq Accounts /\ audit \subseteq AuditEntry
  BY DEF AdminInit
<1>3. /\ role \in [Accounts -> Roles \cup {"none"}]
      /\ bySetup \in [Accounts -> AdminProcs \cup {NoUser}]
      /\ adminPc \in [AdminProcs -> AdminLabels]
      /\ op \in [AdminProcs -> Ops \cup {"none"}]
      /\ target \in [AdminProcs -> Accounts \cup {NoUser}]
      /\ newRole \in [AdminProcs -> Roles \cup {"none"}]
  BY DEF AdminInit, AdminLabels, Ops, Roles
<1>4. AdminLocals /\ AccountRows
  BY DEF AdminInit, AdminLocals, AccountRows
<1> QED
  BY <1>1, <1>2, <1>3, <1>4 DEF Typed, AdminTypeOK

\* The invariant behind type correctness holds throughout.
LEMMA TypedAlways == AdminSpec => []Typed
  BY TypedInit, TypedStep, PTL DEF AdminSpec

\* Handlers, tokens, failures and crashes keep the users table, the audit log and
\* every local in its type.
THEOREM TypeCorrect == AdminSpec => []AdminTypeOK
<1>1. Typed => AdminTypeOK
  BY DEF Typed
<1> QED
  BY <1>1, TypedAlways, PTL

----------------------------------------------------------------------------
(* Deactivated accounts *)

\* No statement of any handler changes a row that is_active = 0 has closed: the
\* role update filters on it and the insert meets the UNIQUE e-mail.
THEOREM DeactivatedStay == AdminSpec => DeactivatedFrozen
<1>1. Typed /\ [AdminNext]_adminVars => [\A u \in Accounts : role[u] # "none" /\ ~is_active[u] =>
                                 ~is_active'[u] /\ role'[u] = role[u]]_adminVars
  <2> SUFFICES ASSUME Typed, AdminNext, NEW u \in Accounts, role[u] # "none", ~is_active[u]
               PROVE  ~is_active'[u] /\ role'[u] = role[u]
    OBVIOUS
  <2> USE DEF Typed, AdminTypeOK, AdminLocals, tables
  <2>1. ASSUME NEW p \in AdminProcs, AdminBegin(p) PROVE UNCHANGED <<role, is_active>>
    BY <2>1, BeginOpens DEF AdminStart
  <2>2. ASSUME NEW p \in AdminProcs, AdminResume(p) PROVE ~is_active'[u] /\ role'[u] = role[u]
    <3>1. CASE InsertUser(p)
      BY <3>1 DEF InsertUser
    <3>2. CASE WriteRole(p)
      BY <3>2 DEF WriteRole
    <3>3. CASE WriteInactive(p)
      BY <3>3 DEF WriteInactive
    <3>4. CASE ~InsertUser(p) /\ ~WriteRole(p) /\ ~WriteInactive(p)
      BY <2>2, <3>4 DEF AdminResume, ListAdmins, GetStatus, SetConfig, ReadTarget, CountAdmins,
                        RevokeSessions, LogAudit, AdminFails
    <3> QED BY <3>1, <3>2, <3>3, <3>4
  <2>3. ASSUME NEW v \in Accounts, IssueToken(v) PROVE UNCHANGED <<role, is_active>>
    BY <2>3 DEF IssueToken
  <2>4. CASE AdminCrash
    BY <2>4 DEF AdminCrash
  <2> QED
    BY <2>1, <2>2, <2>3, <2>4 DEF AdminNext
<1> QED
  BY <1>1, TypedAlways, PTL DEF AdminSpec, DeactivatedFrozen

----------------------------------------------------------------------------
(* The last administrator *)

AdminInv == WizardAlone /\ AdminSinceFirst /\ AdminRemains /\ OtherAdminLeft

\* Two counted administrators leave one beside any user.
LEMMA TwoAdmins ==
  ASSUME Cardinality(ActiveAdmins) > 1, NEW u
  PROVE  ActiveAdmins \ {u} # {}
<1> SUFFICES ASSUME ActiveAdmins \subseteq {u} PROVE FALSE
  OBVIOUS
<1>1. Cardinality({u}) = 1 /\ IsFiniteSet({u})
  BY FS_Singleton
<1>2. Cardinality(ActiveAdmins) <= Cardinality({u})
  BY <1>1, FS_Subset
<1>3. IsFiniteSet(ActiveAdmins)
  BY FS_Subset DEF ActiveAdmins
<1>4. Cardinality(ActiveAdmins) \in Nat
  BY <1>3, FS_CardinalityType
<1> QED
  BY <1>1, <1>2, <1>4

\* A step that leaves the tables alone keeps the administrators, if the
\* goroutines it moves stay inside the wizard or past no new check.
LEMMA AdminQuiet ==
  ASSUME Typed, AdminInv, UNCHANGED <<role, is_active, setupDone, history>>,
         ~setupDone => \A p \in AdminProcs :
           /\ adminPc'[p] \in {"idle", "list", "insert", "status", "done"}
           /\ adminPc'[p] = "insert" => op'[p] = "setup"
           /\ adminPc'[p] = "done" => ActiveAdmins # {},
         setupDone /\ ~overlapped => \A p \in AdminProcs :
           Removing(p)' => ActiveAdmins \ {target'[p]} # {}
  PROVE  AdminInv'
<1>1. ActiveAdmins' = ActiveAdmins
  BY DEF ActiveAdmins
<1> QED
  BY <1>1 DEF AdminInv, WizardAlone, AdminSinceFirst, AdminRemains, OtherAdminLeft, history

\* A goroutine that returns or logs keeps them.
LEMMA AdminLeave ==
  ASSUME Typed, AdminInv, NEW p \in AdminProcs, UNCHANGED <<role, is_active, setupDone, history>>,
         AdminReturn(p) \/ ((AdminGoto(p, "audit") \/ AdminGoto(p, "revoke")) /\ setupDone)
  PROVE  AdminInv'
<1>1. ~setupDone => \A q \in AdminProcs :
           /\ adminPc'[q] \in {"idle", "list", "insert", "status", "done"}
           /\ adminPc'[q] = "insert" => op'[q] = "setup"
           /\ adminPc'[q] = "done" => ActiveAdmins # {}
  BY DEF AdminReturn, AdminGoto, Typed, AdminTypeOK, AdminInv, WizardAlone
<1>2. setupDone /\ ~overlapped => \A q \in AdminProcs :
           Removing(q)' => ActiveAdmins \ {target'[q]} # {}
  BY DEF AdminReturn, AdminGoto, Typed, AdminTypeOK, AdminInv, OtherAdminLeft, Removing
<1> QED
  BY <1>1, <1>2, AdminQuiet

\* Only requests of user management stand at these labels, after setup.
LEMMA UserRouteLabels ==
  ASSUME AdminInv, NEW p \in AdminProcs,
         \/ adminPc[p] \in {"read", "count", "write", "revoke", "audit"}
         \/ adminPc[p] = "insert" /\ op[p] = "create"
  PROVE  setupDone
  BY DEF AdminInv, WizardAlone

\* A step of one goroutine preserves the administrators.
LEMMA AdminContinue ==
  ASSUME Typed, AdminInv, NEW p \in AdminProcs, AdminResume(p), Typed'
  PROVE  AdminInv'
<1> USE DEF Typed
<1>1. CASE ListAdmins(p)
  <2>1. CASE AdminReturn(p)
    BY <1>1, <2>1, AdminLeave DEF ListAdmins, tables
  <2>2. CASE AdminGoto(p, "insert")
    BY <1>1, <2>2, AdminQuiet DEF ListAdmins, tables, AdminGoto, AdminTypeOK, AdminLocals, AdminInv,
       WizardAlone, OtherAdminLeft, Removing
  <2> QED BY <1>1, <2>1, <2>2 DEF ListAdmins
<1>2. CASE InsertUser(p)
  <2>1. CASE role[target[p]] # "none"
    BY <1>2, <2>1, AdminLeave DEF InsertUser, history
  <2>2. CASE role[target[p]] = "none"
    <3>1. ActiveAdmins \subseteq ActiveAdmins'
      BY <1>2, <2>2 DEF InsertUser, ActiveAdmins, AdminTypeOK
    <3>2. target[p] \in Accounts
      BY <1>2 DEF InsertUser, AdminLocals
    <3>3. op[p] = "setup" => newRole[p] = "admin"
      <4> SUFFICES ASSUME op[p] = "setup" PROVE newRole[p] = "admin"
        OBVIOUS
      <4> QED BY <1>2, <3>2 DEF InsertUser, AdminLocals
    <3>4. op[p] = "setup" => ActiveAdmins' # {}
      BY <1>2, <2>2, <3>2, <3>3 DEF InsertUser, ActiveAdmins, AdminTypeOK
    <3>5. op[p] # "setup" => op[p] = "create" /\ setupDone /\ bySetup' = bySetup
      BY <1>2, <2>2, <3>2, UserRouteLabels DEF InsertUser, AdminLocals, AdminTypeOK
    <3>6. WizardAlone'
      BY <1>2, <2>2, <3>1, <3>5 DEF InsertUser, AdminInv, WizardAlone, AdminReturn, AdminGoto, AdminTypeOK
    <3>7. AdminSinceFirst' /\ AdminRemains'
      BY <1>2, <2>2, <3>1, <3>4, <3>5 DEF InsertUser, AdminInv, AdminSinceFirst, AdminRemains
    <3>8. OtherAdminLeft'
      BY <1>2, <2>2, <3>1 DEF InsertUser, AdminInv, OtherAdminLeft, Removing, AdminReturn, AdminGoto, AdminTypeOK
    <3> QED BY <3>6, <3>7, <3>8 DEF AdminInv
  <2> QED BY <2>1, <2>2
<1>3. CASE GetStatus(p)
  <2>1. CASE AdminReturn(p)
    BY <1>3, <2>1, AdminLeave DEF GetStatus, tables
  <2>2. CASE AdminGoto(p, "done") /\ ActiveAdmins # {}
    BY <1>3, <2>2, AdminQuiet DEF GetStatus, tables, AdminGoto, AdminTypeOK, AdminInv, WizardAlone,
       OtherAdminLeft, Removing
  <2> QED BY <1>3, <2>1, <2>2 DEF GetStatus
<1>4. CASE SetConfig(p)
  <2>1. ActiveAdmins' = ActiveAdmins
    BY <1>4 DEF SetConfig, ActiveAdmins
  <2>2. ~setupDone => ActiveAdmins # {} /\ \A q \in AdminProcs : ~Removing(q)
    BY <1>4 DEF SetConfig, AdminInv, WizardAlone, Removing
  <2>3. WizardAlone'
    BY <1>4, <2>1 DEF SetConfig, AdminInv, WizardAlone, AdminReturn, AdminTypeOK
  <2>4. AdminSinceFirst' /\ AdminRemains'
    BY <1>4, <2>1, <2>2 DEF SetConfig, AdminInv, AdminSinceFirst, AdminRemains, history
  <2>5. \A q \in AdminProcs : Removing(q)' => Removing(q) /\ target'[q] = target[q]
    BY <1>4 DEF SetConfig, Removing, AdminReturn, AdminTypeOK
  <2>6. OtherAdminLeft'
    BY <1>4, <2>1, <2>2, <2>5 DEF SetConfig, AdminInv, OtherAdminLeft, history
  <2> QED BY <2>3, <2>4, <2>6 DEF AdminInv
<1>5. CASE ReadTarget(p)
  <2>1. setupDone
    BY <1>5, UserRouteLabels DEF ReadTarget
  <2>2. CASE AdminReturn(p)
    BY <1>5, <2>2, AdminLeave DEF ReadTarget, tables
  <2>3. CASE AdminGoto(p, "count")
    BY <1>5, <2>1, <2>3, AdminQuiet DEF ReadTarget, tables, AdminGoto, AdminTypeOK, AdminInv,
       OtherAdminLeft, Removing
  <2>4. CASE AdminGoto(p, "write") /\ role[target[p]] # "admin"
    <3>1. ~overlapped => ActiveAdmins \ {target[p]} # {}
      BY <2>1, <2>4 DEF AdminInv, AdminRemains, ActiveAdmins
    <3> QED
      BY <1>5, <2>1, <2>4, <3>1, AdminQuiet DEF ReadTarget, tables, AdminGoto, AdminTypeOK, AdminInv,
         OtherAdminLeft, Removing
  <2> QED BY <1>5, <2>2, <2>3, <2>4 DEF ReadTarget
<1>6. CASE CountAdmins(p)
  <2>1. setupDone
    BY <1>6, UserRouteLabels DEF CountAdmins
  <2>2. CASE AdminReturn(p)
    BY <1>6, <2>2, AdminLeave DEF CountAdmins, tables
  <2>3. CASE AdminGoto(p, "write") /\ ~(Cardinality(ActiveAdmins) <= 1)
    <3>1. IsFiniteSet(ActiveAdmins)
      BY FS_Subset DEF ActiveAdmins
    <3>2. Cardinality(ActiveAdmins) \in Nat
      BY <3>1, FS_CardinalityType
    <3>3. ActiveAdmins \ {target[p]} # {}
      BY <2>3, <3>2, TwoAdmins
    <3> QED
      BY <1>6, <2>1, <2>3, <3>3, AdminQuiet DEF CountAdmins, tables, AdminGoto, AdminTypeOK, AdminInv,
         OtherAdminLeft, Removing
  <2> QED BY <1>6, <2>2, <2>3 DEF CountAdmins
<1>7. CASE WriteRole(p) \/ WriteInactive(p)
  <2>1. setupDone /\ adminPc[p] = "write" /\ target[p] \in Accounts
    BY <1>7, UserRouteLabels DEF WriteRole, WriteInactive, AdminLocals
  <2>2. UNCHANGED <<setupDone, bySetup>>
    BY <1>7 DEF WriteRole, WriteInactive
  <2>3. \A q \in AdminProcs : Removing(q)' => q # p /\ Removing(q) /\ target'[q] = target[q]
    BY <1>7 DEF WriteRole, WriteInactive, Removing, AdminReturn, AdminGoto, AdminTypeOK
  <2>4. WizardAlone'
    BY <2>1, <2>2 DEF WizardAlone
  <2>5. ActiveAdmins \ {target[p]} \subseteq ActiveAdmins'
    BY <1>7 DEF WriteRole, WriteInactive, ActiveAdmins, AdminTypeOK
  <2>6. ~Removing(p) => ActiveAdmins \subseteq ActiveAdmins'
    <3> SUFFICES ASSUME ~Removing(p) PROVE ActiveAdmins \subseteq ActiveAdmins'
      OBVIOUS
    <3>1. newRole[p] = "admin"
      BY <2>1 DEF Removing
    <3>2. CASE WriteRole(p)
      BY <3>1, <3>2 DEF WriteRole, ActiveAdmins, AdminTypeOK
    <3>3. CASE WriteInactive(p)
      BY <3>1, <3>3, <2>1 DEF WriteInactive, AdminLocals
    <3> QED BY <1>7, <3>2, <3>3
  <2>7. target[p] \notin ActiveAdmins => ActiveAdmins \subseteq ActiveAdmins'
    BY <2>5
  <2>8. ~overlapped' => ~overlapped
    BY <1>7 DEF WriteRole, WriteInactive, NoteOverlap
  <2>9. ~overlapped' => ActiveAdmins' # {}
    <3> SUFFICES ASSUME ~overlapped' PROVE ActiveAdmins' # {}
      OBVIOUS
    <3>1. CASE Removing(p)
      BY <2>1, <2>5, <2>8, <3>1 DEF AdminInv, OtherAdminLeft
    <3>2. CASE ~Removing(p)
      BY <2>1, <2>6, <2>8, <3>2 DEF AdminInv, AdminRemains
    <3> QED BY <3>1, <3>2
  <2>10. OtherAdminLeft'
    <3> SUFFICES ASSUME ~overlapped', NEW q \in AdminProcs, Removing(q)'
                 PROVE  ActiveAdmins' \ {target'[q]} # {}
      BY DEF OtherAdminLeft
    <3>1. q # p /\ Removing(q) /\ target'[q] = target[q]
      BY <2>3
    <3>2. ~(Removing(p) /\ target[p] \in ActiveAdmins)
      BY <1>7, <3>1 DEF WriteRole, WriteInactive, NoteOverlap
    <3>3. ActiveAdmins \subseteq ActiveAdmins'
      BY <3>2, <2>6, <2>7
    <3>4. ActiveAdmins \ {target[q]} # {}
      BY <2>1, <2>8, <3>1 DEF AdminInv, OtherAdminLeft
    <3> QED BY <3>1, <3>3, <3>4
  <2> QED BY <2>4, <2>9, <2>10 DEF AdminInv, AdminSinceFirst, AdminRemains
<1>8. CASE RevokeSessions(p)
  BY <1>8, UserRouteLabels, AdminLeave DEF RevokeSessions, tables
<1>9. CASE LogAudit(p)
  BY <1>9, AdminLeave DEF LogAudit
<1>10. CASE AdminFails(p)
  BY <1>10, UserRouteLabels, AdminLeave DEF AdminFails, tables
<1> QED
  BY <1>1, <1>2, <1>3, <1>4, <1>5, <1>6, <1>7, <1>8, <1>9, <1>10 DEF AdminResume

\* Every step preserves the administrators.
LEMMA AdminStep == Typed /\ Typed' /\ AdminInv /\ [AdminNext]_adminVars => AdminInv'
<1> SUFFICES ASSUME Typed, Typed', AdminInv, [AdminNext]_adminVars PROVE AdminInv'
  OBVIOUS
<1>1. ASSUME NEW p \in AdminProcs, AdminBegin(p) PROVE AdminInv'
  <2>1. PICK label, request, u, r :
           /\ Opening(label, request, u, r) /\ AdminStart(p, label, request, u, r)
           /\ adminFaults' \in {adminFaults, adminFaults + 1}
    BY <1>1, BeginOpens
  <2>2. /\ adminPc[p] = "idle" /\ UNCHANGED <<role, is_active, setupDone, history>>
        /\ adminPc'[p] = label /\ op'[p] = request /\ newRole'[p] = r
        /\ \A q \in AdminProcs : q # p => /\ adminPc'[q] = adminPc[q] /\ op'[q] = op[q]
                                           /\ target'[q] = target[q] /\ newRole'[q] = newRole[q]
    BY <2>1 DEF AdminStart, tables, Typed, AdminTypeOK
  <2>3. ~setupDone => label \in {"list", "status"}
    BY <2>1 DEF Opening
  <2>4. label = "write" => r = "admin"
    BY <2>1 DEF Opening
  <2> QED
    BY <2>2, <2>3, <2>4, AdminQuiet DEF AdminInv, WizardAlone, OtherAdminLeft, Removing
<1>2. ASSUME NEW p \in AdminProcs, AdminResume(p) PROVE AdminInv'
  BY <1>2, AdminContinue
<1>3. ASSUME NEW u \in Accounts, IssueToken(u) PROVE AdminInv'
  BY <1>3, AdminQuiet DEF IssueToken, tables, adminLocals, AdminInv, WizardAlone, OtherAdminLeft,
     Removing
<1>4. CASE AdminCrash
  BY <1>4, AdminQuiet DEF AdminCrash, tables, Removing
<1>5. CASE UNCHANGED adminVars
  BY <1>5, AdminQuiet DEF adminVars, tables, adminLocals, AdminInv, WizardAlone, OtherAdminLeft, Removing
<1> QED
  BY <1>1, <1>2, <1>3, <1>4, <1>5 DEF AdminNext

\* Both invariants together are inductive.
LEMMA AdminAlways == AdminSpec => [](Typed /\ AdminInv)
<1>1. AdminInit => AdminInv
  BY DEF AdminInit, AdminInv, WizardAlone, AdminSinceFirst, AdminRemains, OtherAdminLeft
<1> QED
  BY <1>1, TypedInit, TypedStep, AdminStep, PTL DEF AdminSpec

\* checkLastAdmin works for any sequence of requests, failures and crashes: an
\* installation whose removals never overlapped has an active administrator.
THEOREM LastAdminSerial == AdminSpec => []AdminRemains
<1>1. AdminInv => AdminRemains
  BY DEF AdminInv
<1> QED
  BY <1>1, AdminAlways, PTL

----------------------------------------------------------------------------
(* One first admin per goroutine *)

FirstInv == FirstAdminPending /\ OneFirstAdminEach

\* Only the insert of the wizard writes the history variable, and only ListAdmins
\* lets a goroutine reach it.
LEMMA FirstStep == Typed /\ AdminInv /\ FirstInv /\ [AdminNext]_adminVars => FirstInv'
<1> SUFFICES ASSUME Typed, AdminInv, FirstInv, [AdminNext]_adminVars PROVE FirstInv'
  OBVIOUS
<1> USE DEF Typed
<1>2. ASSUME UNCHANGED bySetup, ~overlapped' => ~overlapped,
             \A q \in AdminProcs : adminPc'[q] = "insert" /\ op'[q] = "setup" =>
                                adminPc[q] = "insert" /\ op[q] = "setup"
      PROVE  FirstInv'
  BY <1>2 DEF FirstInv, FirstAdminPending, OneFirstAdminEach
<1>3. ASSUME NEW p \in AdminProcs, AdminBegin(p) PROVE FirstInv'
  <2>1. PICK label, request, u, r :
           Opening(label, request, u, r) /\ AdminStart(p, label, request, u, r)
    BY <1>3, BeginOpens
  <2>2. ~(label = "insert" /\ request = "setup")
    BY <2>1 DEF Opening
  <2> QED BY <2>1, <2>2, <1>2 DEF AdminStart, history, AdminTypeOK
<1>4. ASSUME NEW p \in AdminProcs, AdminResume(p) PROVE FirstInv'
  <2>1. CASE ListAdmins(p)
    <3>1. CASE AdminReturn(p)
      BY <2>1, <3>1, <1>2 DEF ListAdmins, AdminReturn, history, AdminTypeOK
    <3>2. CASE AdminGoto(p, "insert") /\ ActiveAdmins = {}
      <4>1. UNCHANGED <<bySetup, overlapped>>
        BY <2>1 DEF ListAdmins, history
      <4>2. ~overlapped => \A u \in Accounts : bySetup[u] # p
        BY <3>2 DEF AdminInv, AdminSinceFirst, AdminTypeOK, UserAdminAssumption
      <4>3. \A q \in AdminProcs \ {p} : adminPc'[q] = adminPc[q] /\ op'[q] = op[q]
        BY <3>2 DEF AdminGoto, AdminTypeOK
      <4> QED
        BY <4>1, <4>2, <4>3 DEF FirstInv, FirstAdminPending, OneFirstAdminEach
    <3> QED BY <2>1, <3>1, <3>2 DEF ListAdmins, ActiveAdmins
  <2>2. CASE InsertUser(p)
    <3>1. /\ ~(adminPc'[p] = "insert") /\ target[p] \in Accounts
          /\ \A q \in AdminProcs \ {p} : adminPc'[q] = adminPc[q] /\ op'[q] = op[q]
      BY <2>2 DEF InsertUser, AdminGoto, AdminReturn, AdminTypeOK, AdminLocals
    <3>2. CASE bySetup' = bySetup
      BY <2>2, <3>1, <3>2, <1>2 DEF InsertUser
    <3>3. CASE op[p] = "setup" /\ bySetup' = [bySetup EXCEPT ![target[p]] = p]
      BY <2>2, <3>1, <3>3 DEF InsertUser, FirstInv, FirstAdminPending, OneFirstAdminEach, AdminTypeOK
    <3>4. CASE op[p] # "setup" /\ bySetup' = [bySetup EXCEPT ![target[p]] = bySetup[target[p]]]
      <4>1. bySetup' = bySetup
        BY <3>1, <3>4 DEF AdminTypeOK
      <4> QED BY <3>2, <4>1
    <3> QED BY <2>2, <3>2, <3>3, <3>4 DEF InsertUser
  <2>3. CASE ~ListAdmins(p) /\ ~InsertUser(p)
    <3>1. UNCHANGED bySetup /\ (~overlapped' => ~overlapped)
      <4>1. CASE WriteRole(p) \/ WriteInactive(p)
        BY <4>1 DEF WriteRole, WriteInactive, NoteOverlap
      <4>2. CASE ~WriteRole(p) /\ ~WriteInactive(p)
        BY <1>4, <2>3, <4>2 DEF AdminResume, GetStatus, SetConfig, ReadTarget, CountAdmins,
           RevokeSessions, LogAudit, AdminFails, history
      <4> QED BY <4>1, <4>2
    <3>2. \A q \in AdminProcs : adminPc'[q] = "insert" => adminPc[q] = "insert" /\ op'[q] = op[q]
      BY <1>4, <2>3 DEF AdminResume, GetStatus, SetConfig, ReadTarget, CountAdmins, WriteRole,
         WriteInactive, RevokeSessions, LogAudit, AdminFails, AdminGoto, AdminReturn, AdminTypeOK
    <3> QED BY <3>1, <3>2, <1>2
  <2> QED BY <2>1, <2>2, <2>3
<1>5. ASSUME NEW u \in Accounts, IssueToken(u) PROVE FirstInv'
  BY <1>5, <1>2 DEF IssueToken, history, adminLocals
<1>6. CASE AdminCrash
  BY <1>6, <1>2 DEF AdminCrash, history
<1>7. CASE UNCHANGED adminVars
  BY <1>7, <1>2 DEF adminVars, history, adminLocals
<1> QED
  BY <1>3, <1>4, <1>5, <1>6, <1>7 DEF AdminNext

\* The wizard's check holds for every goroutine by itself: two first admins need
\* two requests that overlap.
THEOREM FirstAdminSerial == AdminSpec => []OneFirstAdminEach
<1>1. AdminInit => FirstInv
  BY DEF AdminInit, FirstInv, FirstAdminPending, OneFirstAdminEach
<1>2. FirstInv => OneFirstAdminEach
  BY DEF FirstInv
<1> QED
  BY <1>1, <1>2, AdminAlways, FirstStep, PTL DEF AdminSpec

----------------------------------------------------------------------------
(* The audit log *)

\* A goroutine that has something to log stays on its way until it has.
LEMMA LoggedKept ==
  ASSUME NEW u, audit \subseteq audit',
         \A q \in AdminProcs : adminPc[q] \in {"revoke", "audit"} =>
           \/ /\ adminPc'[q] = "audit" \/ adminPc'[q] = adminPc[q]
              /\ op'[q] = op[q] /\ target'[q] = target[q]
           \/ adminPc[q] = "audit" /\ <<ActionOf[op[q]], target[q]>> \in audit'
              /\ op[q] \in {"create", "role", "deactivate"},
         Typed
  PROVE  /\ DeactivationLogged(u) => DeactivationLogged(u)'
         /\ CreationLogged(u) => CreationLogged(u)'
<1>1. /\ ActionOf["create"] = "user.created"
      /\ ActionOf["deactivate"] = "user.deactivated"
  BY DEF ActionOf
<1>2. ASSUME DeactivationLogged(u) PROVE DeactivationLogged(u)'
  <2>1. CASE <<"user.deactivated", u>> \in audit
    BY <2>1 DEF DeactivationLogged
  <2>2. ASSUME NEW q \in AdminProcs, adminPc[q] \in {"revoke", "audit"}, op[q] = "deactivate",
               target[q] = u
        PROVE  DeactivationLogged(u)'
    <3>1. CASE (adminPc'[q] = "audit" \/ adminPc'[q] = adminPc[q]) /\ op'[q] = op[q] /\ target'[q] = target[q]
      BY <2>2, <3>1 DEF DeactivationLogged
    <3>2. CASE <<ActionOf[op[q]], target[q]>> \in audit'
      BY <1>1, <2>2, <3>2 DEF DeactivationLogged
    <3> QED BY <2>2, <3>1, <3>2
  <2> QED BY <1>2, <2>1, <2>2 DEF DeactivationLogged
<1>3. ASSUME CreationLogged(u) PROVE CreationLogged(u)'
  <2>1. CASE <<"user.created", u>> \in audit
    BY <2>1 DEF CreationLogged
  <2>2. ASSUME NEW q \in AdminProcs, adminPc[q] = "audit", op[q] = "create", target[q] = u
        PROVE  CreationLogged(u)'
    <3>1. CASE adminPc'[q] = "audit" /\ op'[q] = op[q] /\ target'[q] = target[q]
      BY <2>2, <3>1 DEF CreationLogged
    <3>2. CASE <<ActionOf[op[q]], target[q]>> \in audit'
      BY <1>1, <2>2, <3>2 DEF CreationLogged
    <3> QED BY <2>2, <3>1, <3>2
  <2> QED BY <1>3, <2>1, <2>2 DEF CreationLogged
<1> QED
  BY <1>2, <1>3

\* The step of one goroutine leaves the others alone, and unless it fails, a
\* goroutine gives up its audit entry only by writing it.
LEMMA LogMove ==
  ASSUME Typed, NEW p \in AdminProcs, AdminResume(p), adminFaults' = adminFaults
  PROVE  /\ audit \subseteq audit'
         /\ \A q \in AdminProcs : adminPc[q] \in {"revoke", "audit"} =>
              \/ /\ adminPc'[q] = "audit" \/ adminPc'[q] = adminPc[q]
                 /\ op'[q] = op[q] /\ target'[q] = target[q]
              \/ adminPc[q] = "audit" /\ <<ActionOf[op[q]], target[q]>> \in audit'
                 /\ op[q] \in {"create", "role", "deactivate"}
<1> USE DEF Typed, AdminTypeOK, AdminLocals, AdminGoto, AdminReturn, tables
<1>1. CASE ListAdmins(p) \/ GetStatus(p) \/ SetConfig(p) \/ ReadTarget(p) \/ CountAdmins(p)
  BY <1>1 DEF ListAdmins, GetStatus, SetConfig, ReadTarget, CountAdmins
<1>2. CASE InsertUser(p)
  BY <1>2 DEF InsertUser
<1>3. CASE WriteRole(p)
  BY <1>3 DEF WriteRole
<1>4. CASE WriteInactive(p)
  BY <1>4 DEF WriteInactive
<1>5. CASE RevokeSessions(p)
  BY <1>5 DEF RevokeSessions
<1>6. CASE LogAudit(p)
  BY <1>6 DEF LogAudit
<1>7. CASE AdminFails(p)
  BY <1>7 DEF AdminFails
<1> QED
  BY <1>1, <1>2, <1>3, <1>4, <1>5, <1>6, <1>7 DEF AdminResume

\* A step of one goroutine keeps the log complete.
LEMMA AuditContinue ==
  ASSUME Typed, AdminAuditComplete, NEW p \in AdminProcs, AdminResume(p), Typed'
  PROVE  AdminAuditComplete'
<1> SUFFICES ASSUME adminFaults' = 0, NEW u \in Accounts
             PROVE  /\ role'[u] # "none" /\ ~is_active'[u] => DeactivationLogged(u)'
                    /\ role'[u] # "none" /\ bySetup'[u] = NoUser => CreationLogged(u)'
  BY DEF AdminAuditComplete
<1>1. adminFaults' = adminFaults
  BY DEF AdminResume, ListAdmins, InsertUser, GetStatus, SetConfig, ReadTarget, CountAdmins,
     WriteRole, WriteInactive, RevokeSessions, LogAudit, AdminFails, Typed, AdminTypeOK
<1>2. /\ role[u] # "none" /\ ~is_active[u] => DeactivationLogged(u)
      /\ role[u] # "none" /\ bySetup[u] = NoUser => CreationLogged(u)
  BY <1>1 DEF AdminAuditComplete
<1>3. /\ DeactivationLogged(u) => DeactivationLogged(u)'
      /\ CreationLogged(u) => CreationLogged(u)'
  BY <1>1, LogMove, LoggedKept
<1>4. CASE InsertUser(p)
  <2>1. CASE u = target[p] /\ role[u] = "none"
    <3>1. is_active'[u]
      BY <1>4, <2>1 DEF InsertUser, Typed, AdminTypeOK
    <3>2. CASE op[p] = "setup"
      BY <1>4, <2>1, <3>1, <3>2 DEF InsertUser, Typed, AdminTypeOK
    <3>3. CASE op[p] # "setup"
      <4>1. adminPc'[p] = "audit" /\ op'[p] = "create" /\ target'[p] = u
        BY <1>4, <2>1, <3>3 DEF InsertUser, AdminGoto, Typed, AdminTypeOK, AdminLocals
      <4>2. CreationLogged(u)'
        BY <4>1 DEF CreationLogged
      <4> QED BY <3>1, <4>2
    <3> QED BY <3>2, <3>3
  <2>2. CASE ~(u = target[p] /\ role[u] = "none")
    <3>1. role'[u] = role[u] /\ is_active'[u] = is_active[u] /\ bySetup'[u] = bySetup[u]
      BY <1>4, <2>2 DEF InsertUser, Typed, AdminTypeOK, AdminLocals
    <3> QED BY <3>1, <1>2, <1>3
  <2> QED BY <2>1, <2>2
<1>5. CASE WriteInactive(p)
  <2>1. CASE u = target[p]
    <3>1. adminPc'[p] = "revoke" /\ op'[p] = "deactivate" /\ target'[p] = u
      BY <1>5, <2>1 DEF WriteInactive, AdminGoto, Typed, AdminTypeOK
    <3>2. DeactivationLogged(u)'
      BY <3>1 DEF DeactivationLogged
    <3>3. role'[u] = role[u] /\ bySetup'[u] = bySetup[u]
      BY <1>5 DEF WriteInactive
    <3> QED BY <3>2, <3>3, <1>2, <1>3
  <2>2. CASE u # target[p]
    <3>1. role'[u] = role[u] /\ is_active'[u] = is_active[u] /\ bySetup'[u] = bySetup[u]
      BY <1>5, <2>2 DEF WriteInactive, Typed, AdminTypeOK
    <3> QED BY <3>1, <1>2, <1>3
  <2> QED BY <2>1, <2>2
<1>6. CASE WriteRole(p)
  <2>1. is_active'[u] = is_active[u] /\ bySetup'[u] = bySetup[u]
    BY <1>6 DEF WriteRole
  <2>2. role[u] = "none" => role'[u] = "none" \/ is_active[u]
    BY <1>6 DEF WriteRole, Typed, AdminTypeOK
  <2>3. role[u] = "none" => ~is_active[u]
    BY DEF Typed, AccountRows
  <2> QED BY <1>2, <1>3, <2>1, <2>2, <2>3
<1>7. CASE ~InsertUser(p) /\ ~WriteInactive(p) /\ ~WriteRole(p)
  <2>1. UNCHANGED <<role, is_active, bySetup>>
    BY <1>7 DEF AdminResume, ListAdmins, GetStatus, SetConfig, ReadTarget, CountAdmins,
       RevokeSessions, LogAudit, AdminFails, tables, history
  <2> QED BY <2>1, <1>2, <1>3
<1> QED
  BY <1>4, <1>5, <1>6, <1>7

\* As long as no statement fails, no deactivation and no new account goes
\* unlogged: the entry is there or its goroutine is on the way to write it.
THEOREM AdminAuditWhole == AdminSpec => []AdminAuditComplete
<1>1. AdminInit => AdminAuditComplete
  BY DEF AdminInit, AdminAuditComplete
<1>2. Typed /\ Typed' /\ AdminAuditComplete /\ [AdminNext]_adminVars => AdminAuditComplete'
  <2> SUFFICES ASSUME Typed, Typed', AdminAuditComplete, [AdminNext]_adminVars
               PROVE  AdminAuditComplete'
    OBVIOUS
  <2>1. ASSUME UNCHANGED <<tables, history>>,
               adminFaults' = adminFaults \/ adminFaults' = adminFaults + 1,
               adminFaults' = adminFaults => \A q \in AdminProcs : adminPc[q] \in {"revoke", "audit"} =>
                 adminPc'[q] = adminPc[q] /\ op'[q] = op[q] /\ target'[q] = target[q]
        PROVE  AdminAuditComplete'
    <3> SUFFICES ASSUME adminFaults' = 0, NEW u \in Accounts
                 PROVE  /\ role'[u] # "none" /\ ~is_active'[u] => DeactivationLogged(u)'
                        /\ role'[u] # "none" /\ bySetup'[u] = NoUser => CreationLogged(u)'
      BY DEF AdminAuditComplete
    <3>1. adminFaults' = adminFaults
      BY <2>1 DEF Typed, AdminTypeOK
    <3>2. /\ DeactivationLogged(u) => DeactivationLogged(u)'
          /\ CreationLogged(u) => CreationLogged(u)'
      BY <2>1, <3>1, LoggedKept DEF tables
    <3> QED BY <2>1, <3>1, <3>2 DEF AdminAuditComplete, tables, history
  <2>2. ASSUME NEW p \in AdminProcs, AdminBegin(p) PROVE AdminAuditComplete'
    BY <2>2, <2>1, BeginOpens DEF AdminStart, Typed, AdminTypeOK
  <2>3. ASSUME NEW p \in AdminProcs, AdminResume(p) PROVE AdminAuditComplete'
    BY <2>3, AuditContinue
  <2>4. ASSUME NEW u \in Accounts, IssueToken(u) PROVE AdminAuditComplete'
    BY <2>4, <2>1 DEF IssueToken, adminLocals
  <2>5. CASE AdminCrash
    BY <2>5, <2>1 DEF AdminCrash, Typed, AdminTypeOK
  <2>6. CASE UNCHANGED adminVars
    BY <2>6, <2>1 DEF adminVars, adminLocals
  <2> QED
    BY <2>2, <2>3, <2>4, <2>5, <2>6 DEF AdminNext
<1> QED
  BY <1>1, <1>2, TypedAlways, PTL DEF AdminSpec

----------------------------------------------------------------------------

\* The parts together are the inductive invariant that TLC checks on the small
\* instance.
THEOREM UserAdminInvariant == AdminSpec => []UserAdminInv
<1>1. AdminInit => FirstInv
  BY DEF AdminInit, FirstInv, FirstAdminPending, OneFirstAdminEach
<1>2. Typed /\ AdminInv /\ FirstInv /\ AdminAuditComplete => UserAdminInv
  BY DEF Typed, AdminInv, FirstInv, UserAdminInv
<1> QED
  BY <1>1, <1>2, AdminAlways, FirstStep, AdminAuditWhole, PTL DEF AdminSpec
=============================================================================
