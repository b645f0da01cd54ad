----------------------------- MODULE PimProofs -----------------------------
(***************************************************************************)
(* Proofs about the PIM engine, for every set of users, goroutines and     *)
(* sessions, every day length, every duration limit and every bound.       *)
(***************************************************************************)
EXTENDS Pim, TLAPS

USE PimAssumption

----------------------------------------------------------------------------
(* The clock and the text comparison *)

\* Dates do not go backwards while the clock advances.
LEMMA DayMonotone == \A t \in Nat : Day(t) <= Day(t + 1)
  BY DEF Day

\* Two times on one date, or the first on a later one, are less than a day apart.
LEMMA DayDistance == \A e, t \in Nat : LaterText(e, t) => t < e + DayLen
  BY DEF LaterText, Day

\* An expiry that the query no longer sees stays unseen.
LEMMA LaterTextStable == \A e, t \in Nat : LaterText(e, t + 1) => LaterText(e, t)
<1> SUFFICES ASSUME NEW e \in Nat, NEW t \in Nat, Day(e) >= Day(t + 1)
             PROVE  Day(e) >= Day(t)
  BY DEF LaterText
<1>1. Day(t) <= Day(t + 1)
  BY DayMonotone
<1>2. Day(e) \in Int /\ Day(t) \in Int /\ Day(t + 1) \in Int
  BY DEF Day
<1> QED
  BY <1>1, <1>2

----------------------------------------------------------------------------
(* Type correctness *)

\* The invariant behind type correctness: the locals of a handler that is past
\* its look-up name a row of the table.
Typed == TypeOK /\ InFlight

\* A step of the PIM engine keeps its tables and locals well typed and the
\* rows that handlers hold in place.
LEMMA TypedStep == Typed /\ [Next]_vars => Typed'
<1> SUFFICES ASSUME Typed, [Next]_vars PROVE Typed'
  OBVIOUS
<1> USE DEF Typed, TypeOK, InFlight, Exists, Labels, AuditEntry, rows, locals,
            Fault, NoFault, Goto, Return, Found
<1>1. ASSUME NEW p \in Procs, NEW u \in Users, NEW d \in Int, RequestCheck(p, u, d)
      PROVE  Typed'
  BY <1>1 DEF RequestCheck, isValidDuration
<1>2. ASSUME NEW p \in Procs, NEW u \in Users, Begin(p, u) PROVE Typed'
  <2>1. CASE RequestPIM(p, u)
    <3>1. PICK body \in BodyDurations :
             RequestCheck(p, u, IF body = 0 THEN DefaultDuration ELSE body)
      BY <2>1 DEF RequestPIM
    <3>2. (IF body = 0 THEN DefaultDuration ELSE body) \in Int
      OBVIOUS
    <3> QED BY <3>1, <3>2, <1>1
  <2>2. CASE BreakGlass(p, u)
    BY <2>2, <1>1 DEF BreakGlass
  <2>3. CASE EndPIM(p, u)
    BY <2>3 DEF EndPIM, ActiveIds
  <2>4. CASE CheckActive(p, u)
    BY <2>4 DEF CheckActive, ActiveIds
  <2> QED BY <1>2, <2>1, <2>2, <2>3, <2>4 DEF Begin
<1>3. ASSUME NEW p \in Procs, Continue(p) PROVE Typed'
  <2>1. CASE CreatePIMSession(p)
    BY <2>1 DEF CreatePIMSession
  <2>2. CASE AuditStarted(p)
    BY <2>2 DEF AuditStarted, LogAudit
  <2>3. CASE EndRecheck(p)
    BY <2>3 DEF EndRecheck
  <2>4. CASE EndPIMSession(p)
    BY <2>4 DEF EndPIMSession
  <2>5. CASE AuditEnded(p)
    BY <2>5 DEF AuditEnded, LogAudit
  <2>6. CASE RecordAction(p)
    BY <2>6 DEF RecordAction
  <2> QED BY <1>3, <2>1, <2>2, <2>3, <2>4, <2>5, <2>6 DEF Continue
<1>4. CASE ExpireOverdue
  BY <1>4 DEF ExpireOverdue
<1>5. CASE Crash
  BY <1>5 DEF Crash
<1>6. CASE Tick
  BY <1>6 DEF Tick
<1>7. CASE UNCHANGED vars
  BY <1>7 DEF vars
<1> QED
  BY <1>2, <1>3, <1>4, <1>5, <1>6, <1>7 DEF Next

\* The invariant behind type correctness holds throughout.
LEMMA TypedAlways == Spec => []Typed
<1>1. Init => Typed
  BY DEF Init, Typed, TypeOK, InFlight, Labels, AuditEntry
<1> QED
  BY <1>1, TypedStep, PTL DEF Spec

\* The handlers, the expiry job, crashes and the clock keep every table and
\* local of the PIM engine in its type.
THEOREM TypeCorrect == Spec => []TypeOK
<1>1. Typed => TypeOK
  BY DEF Typed
<1> QED
  BY <1>1, TypedAlways, PTL

----------------------------------------------------------------------------
(* The inductive invariant *)

\* The set of a user's active rows only depends on three columns and the clock.
LEMMA ActiveSame ==
  ASSUME UNCHANGED <<now, user_id, ended_at, expires_at>>
  PROVE  \A u : ActiveIds(u)' = ActiveIds(u)
  BY DEF ActiveIds

\* Ending rows or letting time pass never makes a row active.
LEMMA ActiveShrinks ==
  ASSUME Typed, now' \in {now, now + 1}, UNCHANGED <<user_id, expires_at>>,
         \A i \in PimIds : ended_at'[i] = "open" => ended_at[i] = "open"
  PROVE  \A u : ActiveIds(u)' \subseteq ActiveIds(u)
<1> SUFFICES ASSUME NEW u, NEW i \in ActiveIds(u)' PROVE i \in ActiveIds(u)
  OBVIOUS
<1>1. /\ i \in PimIds /\ user_id[i] = u /\ ended_at[i] = "open"
      /\ LaterText(expires_at[i], now')
  BY DEF ActiveIds, LaterText
<1>2. LaterText(expires_at[i], now)
  BY <1>1, LaterTextStable DEF Typed, TypeOK
<1> QED
  BY <1>1, <1>2 DEF ActiveIds

\* As long as no handler leaves its audit step unheard, no entry goes missing.
LEMMA AuditKept ==
  ASSUME PimInv, faults' = 0 => faults = 0,
         audit \subseteq audit',
         UNCHANGED user_id,
         \A i \in PimIds : ended_at'[i] = "manual" => ended_at[i] = "manual",
         \A q \in Procs : pc[q] \in {"auditStart", "auditEnd"} =>
                            pc'[q] = pc[q] /\ target'[q] = target[q]
  PROVE  AuditComplete'
<1> SUFFICES ASSUME faults' = 0, NEW i \in PimIds
             PROVE  /\ Exists(i)' =>
                         \/ <<"pim.session.started", i>> \in audit'
                         \/ \E q \in Procs : pc'[q] = "auditStart" /\ target'[q] = i
                    /\ ended_at'[i] = "manual" =>
                         \/ <<"pim.session.ended", i>> \in audit'
                         \/ \E q \in Procs : pc'[q] = "auditEnd" /\ target'[q] = i
  BY DEF AuditComplete
<1>1. /\ Exists(i) =>
           \/ <<"pim.session.started", i>> \in audit
           \/ \E q \in Procs : pc[q] = "auditStart" /\ target[q] = i
      /\ ended_at[i] = "manual" =>
           \/ <<"pim.session.ended", i>> \in audit
           \/ \E q \in Procs : pc[q] = "auditEnd" /\ target[q] = i
  BY DEF PimInv, AuditComplete
<1> QED
  BY <1>1 DEF Exists

\* A handler of the request path starts only when its user has no active row.
LEMMA RequestStep ==
  ASSUME PimInv, NEW p \in Procs, NEW u \in Users, NEW d \in Int,
         RequestCheck(p, u, d), Typed'
  PROVE  PimInv'
<1> USE DEF PimInv, Typed
<1>1. \A v : ActiveIds(v)' = ActiveIds(v)
  BY ActiveSame DEF RequestCheck, rows
<1>2. (Unused /\ OnlyOverlapDuplicates /\ CountExactWhileOpen /\ AuditTruthful)'
  BY <1>1 DEF RequestCheck, rows, Unused, OnlyOverlapDuplicates, CountExactWhileOpen,
              AuditTruthful, Exists, Fault, NoFault, TypeOK
<1>3. PendingOwnsNone'
  <2> SUFFICES ASSUME faults' = 0, NEW q \in Procs, pc'[q] = "insert",
                      NEW i \in ActiveIds(caller'[q])
               PROVE  insertedBy'[i] # q
    BY <1>1 DEF PendingOwnsNone
  <2>1. faults = 0 /\ ActiveIds(u) = {} /\ UNCHANGED insertedBy
    BY DEF RequestCheck, Fault, NoFault, rows, TypeOK
  <2>2. CASE q = p
    BY <2>1, <2>2 DEF RequestCheck, TypeOK
  <2>3. CASE q # p
    <3>1. pc[q] = "insert" /\ caller'[q] = caller[q]
      BY <2>3 DEF RequestCheck, Goto, TypeOK
    <3> QED BY <3>1, <2>1 DEF PendingOwnsNone
  <2> QED BY <2>2, <2>3
<1>4. AuditComplete'
  BY AuditKept DEF RequestCheck, rows, Goto, Fault, NoFault, TypeOK
<1> QED
  BY <1>2, <1>3, <1>4

\* A look-up that moves an idle handler to label changes no table.
LEMMA FoundStep ==
  ASSUME PimInv, NEW p \in Procs, NEW u \in Users, NEW i \in PimIds,
         NEW label \in {"recheck", "count"},
         pc[p] = "idle", Found(p, u, i, label),
         UNCHANGED <<now, rows, audit, grants, faults>>, Typed'
  PROVE  PimInv'
<1> USE DEF PimInv, Typed
<1>1. \A v : ActiveIds(v)' = ActiveIds(v)
  BY ActiveSame DEF rows
<1>2. (Unused /\ OnlyOverlapDuplicates /\ CountExactWhileOpen /\ AuditTruthful)'
  BY <1>1 DEF rows, Unused, OnlyOverlapDuplicates, CountExactWhileOpen,
              AuditTruthful, Exists
<1>3. PendingOwnsNone'
  BY <1>1 DEF Found, rows, PendingOwnsNone, Goto, TypeOK
<1>4. AuditComplete'
  BY AuditKept DEF Found, rows, Goto, TypeOK
<1> QED
  BY <1>2, <1>3, <1>4

\* The insert adds one row, owned by the goroutine that inserts it.
LEMMA CreateStep ==
  ASSUME PimInv, NEW p \in Procs, CreatePIMSession(p), Typed'
  PROVE  PimInv'
<1> USE DEF PimInv, Typed
<1>1. CASE Fault /\ Return(p) /\ UNCHANGED rows
  <2>1. faults' # 0
    BY <1>1 DEF Fault, TypeOK
  <2>2. (Unused /\ AuditTruthful)'
    BY <1>1 DEF CreatePIMSession, rows, Unused, AuditTruthful, Exists
  <2> QED
    BY <2>1, <2>2 DEF PendingOwnsNone, OnlyOverlapDuplicates, CountExactWhileOpen, AuditComplete
<1>2. ASSUME NEW i \in PimIds, user_id[i] = None, NoFault,
             user_id' = [user_id EXCEPT ![i] = caller[p]],
             expires_at' = [expires_at EXCEPT ![i] = expiry[p]],
             insertedBy' = [insertedBy EXCEPT ![i] = p],
             target' = [target EXCEPT ![p] = i],
             Goto(p, "auditStart"),
             UNCHANGED <<ended_at, action_count, caller, expiry>>
      PROVE  PimInv'
  <2> USE <1>2
  <2>1. \A v : ActiveIds(v)' \subseteq ActiveIds(v) \cup (IF v = caller[p] THEN {i} ELSE {})
    BY DEF CreatePIMSession, ActiveIds, TypeOK, LaterText, Day
  <2>2. Unused'
    BY DEF CreatePIMSession, Unused, Exists, TypeOK, InFlight
  <2>3. AuditTruthful'
    BY DEF CreatePIMSession, AuditTruthful, Exists, TypeOK, InFlight
  <2>4. PendingOwnsNone'
    <3> SUFFICES ASSUME faults = 0, NEW q \in Procs, pc'[q] = "insert",
                        NEW j \in ActiveIds(caller[q])'
                 PROVE  insertedBy'[j] # q
      BY DEF PendingOwnsNone, NoFault, CreatePIMSession
    <3>1. q # p /\ pc[q] = "insert" /\ caller'[q] = caller[q]
      BY DEF Goto, TypeOK
    <3>2. j \in PimIds
      BY DEF ActiveIds
    <3>3. CASE j = i
      BY <3>1, <3>3 DEF TypeOK
    <3>4. CASE j # i
      <4>1. j \in ActiveIds(caller[q])
        BY <2>1, <3>1, <3>4
      <4> QED
        BY <4>1, <3>1, <3>2, <3>4 DEF PendingOwnsNone, TypeOK
    <3> QED BY <3>3, <3>4
  <2>5. OnlyOverlapDuplicates'
    <3> SUFFICES ASSUME faults = 0, NEW u \in Users,
                        NEW j \in ActiveIds(u)', NEW k \in ActiveIds(u)', j # k
                 PROVE  insertedBy'[j] # insertedBy'[k]
      BY DEF OnlyOverlapDuplicates, NoFault, CreatePIMSession
    <3>1. j \in PimIds /\ k \in PimIds
      BY DEF ActiveIds
    <3>2. CASE j # i /\ k # i
      <4>1. j \in ActiveIds(u) /\ k \in ActiveIds(u)
        BY <2>1, <3>2
      <4> QED BY <4>1, <3>1, <3>2 DEF OnlyOverlapDuplicates, TypeOK
    <3>3. CASE j = i
      <4>1. k \in ActiveIds(u) /\ u = caller[p]
        BY <2>1, <3>3 DEF ActiveIds, TypeOK
      <4> QED BY <4>1, <3>1, <3>3 DEF PendingOwnsNone, CreatePIMSession, TypeOK
    <3>4. CASE k = i
      <4>1. j \in ActiveIds(u) /\ u = caller[p]
        BY <2>1, <3>4 DEF ActiveIds, TypeOK
      <4> QED BY <4>1, <3>1, <3>4 DEF PendingOwnsNone, CreatePIMSession, TypeOK
    <3> QED BY <3>2, <3>3, <3>4
  <2>6. CountExactWhileOpen'
    BY DEF CreatePIMSession, CountExactWhileOpen, NoFault
  <2>7. AuditComplete'
    <3> SUFFICES ASSUME faults = 0
                 PROVE  AuditComplete'
      BY DEF AuditComplete, NoFault
    <3>1. pc'[p] = "auditStart" /\ target'[p] = i
      BY DEF Goto, TypeOK
    <3>2. \A q \in Procs : q # p => pc'[q] = pc[q] /\ target'[q] = target[q]
      BY DEF Goto, TypeOK
    <3>3. \A j \in PimIds : j # i => user_id'[j] = user_id[j]
      BY DEF TypeOK
    <3>4. ended_at[i] = "open" /\ UNCHANGED <<ended_at, audit>>
      BY DEF Unused, Exists, CreatePIMSession
    <3>5. pc[p] = "insert"
      BY DEF CreatePIMSession
    <3> SUFFICES ASSUME NEW j \in PimIds
                 PROVE  /\ Exists(j)' =>
                             \/ <<"pim.session.started", j>> \in audit'
                             \/ \E q \in Procs : pc'[q] = "auditStart" /\ target'[q] = j
                        /\ ended_at'[j] = "manual" =>
                             \/ <<"pim.session.ended", j>> \in audit'
                             \/ \E q \in Procs : pc'[q] = "auditEnd" /\ target'[q] = j
      BY DEF AuditComplete
    <3>6. CASE j = i
      BY <3>1, <3>4, <3>6
    <3>7. CASE j # i
      <4>1. /\ Exists(j) =>
                 \/ <<"pim.session.started", j>> \in audit
                 \/ \E q \in Procs : pc[q] = "auditStart" /\ target[q] = j
            /\ ended_at[j] = "manual" =>
                 \/ <<"pim.session.ended", j>> \in audit
                 \/ \E q \in Procs : pc[q] = "auditEnd" /\ target[q] = j
        BY DEF AuditComplete
      <4> QED
        BY <4>1, <3>2, <3>3, <3>4, <3>5, <3>7 DEF Exists
    <3> QED
      BY <3>6, <3>7
  <2> QED
    BY <2>2, <2>3, <2>4, <2>5, <2>6, <2>7
<1> QED
  BY <1>1, <1>2 DEF CreatePIMSession

\* Writing (or losing) an audit entry touches no row.
LEMMA AuditStep ==
  ASSUME PimInv, NEW p \in Procs, NEW label, NEW action,
         \/ label = "auditStart" /\ action = "pim.session.started"
         \/ label = "auditEnd" /\ action = "pim.session.ended",
         LogAudit(p, label, action), Typed'
  PROVE  PimInv'
<1> USE DEF PimInv, Typed
<1>1. \A v : ActiveIds(v)' = ActiveIds(v)
  BY ActiveSame DEF LogAudit, rows
<1>2. (Unused /\ OnlyOverlapDuplicates /\ CountExactWhileOpen)'
  BY <1>1 DEF LogAudit, rows, Unused, OnlyOverlapDuplicates, CountExactWhileOpen,
              Exists, Fault, NoFault, TypeOK
<1>3. PendingOwnsNone'
  <2>1. \A q \in Procs : pc'[q] = "insert" => pc[q] = "insert" /\ caller'[q] = caller[q]
    BY DEF LogAudit, Return, Goto, TypeOK
  <2>2. faults' = 0 => faults = 0
    BY DEF LogAudit, Fault, NoFault, TypeOK
  <2>3. UNCHANGED insertedBy
    BY DEF LogAudit, rows
  <2> QED
    BY <1>1, <2>1, <2>2, <2>3 DEF PendingOwnsNone
<1>4. AuditTruthful'
  <2>1. pc[p] = label /\ UNCHANGED <<user_id, ended_at>>
    BY DEF LogAudit, rows
  <2>2. audit' \subseteq audit \cup {<<action, target[p]>>}
    BY DEF LogAudit
  <2>3. Exists(target[p]) /\ (label = "auditEnd" => ended_at[target[p]] # "open")
    BY <2>1 DEF InFlight
  <2> QED
    BY <2>1, <2>2, <2>3 DEF AuditTruthful, Exists
<1>5. AuditComplete'
  <2> SUFFICES ASSUME faults' = 0, NEW i \in PimIds
               PROVE  /\ Exists(i)' =>
                           \/ <<"pim.session.started", i>> \in audit'
                           \/ \E q \in Procs : pc'[q] = "auditStart" /\ target'[q] = i
                      /\ ended_at'[i] = "manual" =>
                           \/ <<"pim.session.ended", i>> \in audit'
                           \/ \E q \in Procs : pc'[q] = "auditEnd" /\ target'[q] = i
    BY DEF AuditComplete
  <2>1. /\ faults = 0 /\ pc[p] = label
        /\ audit' = audit \cup {<<action, target[p]>>}
        /\ user_id' = user_id /\ ended_at' = ended_at
    BY DEF LogAudit, Fault, NoFault, rows, TypeOK
  <2>2. \A q \in Procs : q # p => pc'[q] = pc[q] /\ target'[q] = target[q]
    BY DEF LogAudit, Return, Goto, TypeOK
  <2>3. /\ Exists(i) =>
             \/ <<"pim.session.started", i>> \in audit
             \/ \E q \in Procs : pc[q] = "auditStart" /\ target[q] = i
        /\ ended_at[i] = "manual" =>
             \/ <<"pim.session.ended", i>> \in audit
             \/ \E q \in Procs : pc[q] = "auditEnd" /\ target[q] = i
    BY <2>1 DEF AuditComplete
  <2> QED
    BY <2>1, <2>2, <2>3 DEF Exists
<1> QED
  BY <1>2, <1>3, <1>4, <1>5

\* Steps that leave rows, log and history alone and start no request.
LEMMA LocalStep ==
  ASSUME PimInv, UNCHANGED <<now, rows, audit, grants>>, faults' = faults \/ faults' # 0,
         \A q \in Procs : pc'[q] = "insert" => pc[q] = "insert" /\ caller'[q] = caller[q],
         faults' = faults =>
           \A q \in Procs : pc[q] \in {"auditStart", "auditEnd"} =>
                              pc'[q] = pc[q] /\ target'[q] = target[q],
         Typed'
  PROVE  PimInv'
<1> USE DEF PimInv, Typed
<1>1. \A v : ActiveIds(v)' = ActiveIds(v)
  BY ActiveSame DEF rows
<1>2. (Unused /\ AuditTruthful /\ OnlyOverlapDuplicates /\ CountExactWhileOpen)'
  BY <1>1 DEF rows, Unused, AuditTruthful, OnlyOverlapDuplicates, CountExactWhileOpen, Exists
<1>3. PendingOwnsNone'
  BY <1>1 DEF rows, PendingOwnsNone
<1>4. CASE faults' = faults
  BY <1>2, <1>3, <1>4, AuditKept DEF rows
<1>5. CASE faults' # 0
  BY <1>2, <1>3, <1>5 DEF AuditComplete
<1> QED
  BY <1>4, <1>5

\* Ending the row a handler looked up makes it due for an audit entry.
LEMMA EndStep ==
  ASSUME PimInv, NEW p \in Procs, EndPIMSession(p), Typed'
  PROVE  PimInv'
<1> USE DEF PimInv, Typed
<1>1. CASE Fault /\ Return(p) /\ UNCHANGED ended_at
  BY <1>1, LocalStep DEF EndPIMSession, rows, Fault, Return, Goto, TypeOK
<1>2. CASE /\ NoFault
           /\ ended_at' =
                [ended_at EXCEPT ![target[p]] = IF @ = "open" THEN "manual" ELSE @]
           /\ Goto(p, "auditEnd") /\ UNCHANGED <<caller, target, expiry>>
  <2> USE <1>2
  <2>1. /\ target[p] \in PimIds /\ Exists(target[p])
        /\ UNCHANGED <<now, user_id, expires_at, action_count, insertedBy, audit, grants>>
    BY DEF EndPIMSession, InFlight
  <2>2. \A i \in PimIds : ended_at'[i] = "open" => ended_at[i] = "open"
    BY DEF TypeOK
  <2>3. \A u : ActiveIds(u)' \subseteq ActiveIds(u)
    BY <2>1, <2>2, ActiveShrinks DEF TypeOK
  <2>4. (Unused /\ CountExactWhileOpen /\ AuditTruthful)'
    BY <2>1 DEF Unused, CountExactWhileOpen, AuditTruthful, Exists, NoFault, TypeOK
  <2>5. PendingOwnsNone'
    BY <2>1, <2>3 DEF PendingOwnsNone, Goto, NoFault, TypeOK
  <2>6. OnlyOverlapDuplicates'
    BY <2>1, <2>3 DEF OnlyOverlapDuplicates, NoFault
  <2>7. AuditComplete'
    <3> SUFFICES ASSUME faults = 0, NEW i \in PimIds
                 PROVE  /\ Exists(i)' =>
                             \/ <<"pim.session.started", i>> \in audit'
                             \/ \E q \in Procs : pc'[q] = "auditStart" /\ target'[q] = i
                        /\ ended_at'[i] = "manual" =>
                             \/ <<"pim.session.ended", i>> \in audit'
                             \/ \E q \in Procs : pc'[q] = "auditEnd" /\ target'[q] = i
      BY DEF AuditComplete, NoFault
    <3>1. pc[p] = "update" /\ pc'[p] = "auditEnd" /\ target'[p] = target[p]
      BY DEF EndPIMSession, Goto, TypeOK
    <3>2. \A q \in Procs : q # p => pc'[q] = pc[q] /\ target'[q] = target[q]
      BY DEF Goto, TypeOK
    <3>3. i # target[p] => ended_at'[i] = ended_at[i]
      BY DEF TypeOK
    <3>4. /\ Exists(i) =>
               \/ <<"pim.session.started", i>> \in audit
               \/ \E q \in Procs : pc[q] = "auditStart" /\ target[q] = i
          /\ ended_at[i] = "manual" =>
               \/ <<"pim.session.ended", i>> \in audit
               \/ \E q \in Procs : pc[q] = "auditEnd" /\ target[q] = i
      BY DEF AuditComplete
    <3> QED
      BY <2>1, <3>1, <3>2, <3>3, <3>4 DEF Exists
  <2> QED
    BY <2>4, <2>5, <2>6, <2>7
<1> QED
  BY <1>1, <1>2 DEF EndPIMSession

\* The counter follows the history of grants on an open row.
LEMMA RecordStep ==
  ASSUME PimInv, NEW p \in Procs, RecordAction(p), Typed'
  PROVE  PimInv'
<1> USE DEF PimInv, Typed
<1>1. /\ target[p] \in PimIds /\ Exists(target[p]) /\ pc[p] = "count"
      /\ UNCHANGED <<now, user_id, expires_at, ended_at, insertedBy, audit>>
  BY DEF RecordAction, InFlight
<1>2. \A v : ActiveIds(v)' = ActiveIds(v)
  BY <1>1, ActiveSame
<1>3. Unused'
  BY <1>1 DEF RecordAction, Unused, Exists, TypeOK
<1>4. (AuditTruthful /\ OnlyOverlapDuplicates)'
  BY <1>1, <1>2 DEF RecordAction, AuditTruthful, OnlyOverlapDuplicates, Exists,
                    Fault, NoFault, TypeOK
<1>5. PendingOwnsNone'
  BY <1>1, <1>2 DEF RecordAction, PendingOwnsNone, Return, Goto, Fault, NoFault, TypeOK
<1>6. AuditComplete'
  BY <1>1, AuditKept DEF RecordAction, Return, Goto, Fault, NoFault, TypeOK
<1>7. CountExactWhileOpen'
  BY <1>1 DEF RecordAction, CountExactWhileOpen, Fault, NoFault, TypeOK
<1> QED
  BY <1>3, <1>4, <1>5, <1>6, <1>7

\* Time and the expiry job only take rows out of the active set.
LEMMA LapseStep ==
  ASSUME PimInv, ExpireOverdue \/ Tick, Typed'
  PROVE  PimInv'
<1> USE DEF PimInv, Typed
<1>1. /\ UNCHANGED <<user_id, expires_at, action_count, insertedBy, locals, audit, grants, faults>>
      /\ now' \in {now, now + 1}
      /\ \A i \in PimIds : \/ ended_at'[i] = ended_at[i]
                           \/ ended_at'[i] = "overdue" /\ Exists(i)
  BY DEF ExpireOverdue, Tick, Exists, rows
<1>2. \A u : ActiveIds(u)' \subseteq ActiveIds(u)
  BY <1>1, ActiveShrinks
<1>3. (Unused /\ CountExactWhileOpen /\ AuditTruthful)'
  BY <1>1 DEF Unused, CountExactWhileOpen, AuditTruthful, Exists
<1>4. (PendingOwnsNone /\ OnlyOverlapDuplicates)'
  BY <1>1, <1>2 DEF PendingOwnsNone, OnlyOverlapDuplicates, locals
<1>5. AuditComplete'
  BY <1>1, AuditKept DEF locals
<1> QED
  BY <1>3, <1>4, <1>5

\* Every step preserves the inductive invariant.
LEMMA PimInvStep == PimInv /\ [Next]_vars => PimInv'
<1> SUFFICES ASSUME PimInv, [Next]_vars PROVE PimInv'
  OBVIOUS
<1> USE DEF PimInv
<1>0. Typed'
  BY TypedStep DEF Typed
<1>1. ASSUME NEW p \in Procs, NEW u \in Users, Begin(p, u) PROVE PimInv'
  <2>1. CASE RequestPIM(p, u)
    <3>1. PICK body \in BodyDurations :
             RequestCheck(p, u, IF body = 0 THEN DefaultDuration ELSE body)
      BY <2>1 DEF RequestPIM
    <3>2. (IF body = 0 THEN DefaultDuration ELSE body) \in Int
      OBVIOUS
    <3> QED BY <3>1, <3>2, <1>0, RequestStep
  <2>2. CASE BreakGlass(p, u)
    BY <2>2, <1>0, RequestStep DEF BreakGlass
  <2>3. CASE EndPIM(p, u)
    BY <2>3, <1>0, FoundStep DEF EndPIM
  <2>4. CASE CheckActive(p, u)
    BY <2>4, <1>0, FoundStep DEF CheckActive
  <2> QED BY <1>1, <2>1, <2>2, <2>3, <2>4 DEF Begin
<1>2. ASSUME NEW p \in Procs, Continue(p) PROVE PimInv'
  <2>1. CASE CreatePIMSession(p)
    BY <2>1, <1>0, CreateStep
  <2>2. CASE AuditStarted(p)
    BY <2>2, <1>0, AuditStep DEF AuditStarted
  <2>3. CASE EndRecheck(p)
    <3>1. /\ UNCHANGED <<now, rows, audit, grants>>
          /\ faults' = faults \/ faults' # 0
      BY <2>3 DEF EndRecheck, Fault, NoFault, TypeOK
    <3>2. \A q \in Procs : /\ pc'[q] = "insert" => pc[q] = "insert" /\ caller'[q] = caller[q]
                           /\ pc[q] \in {"auditStart", "auditEnd"} =>
                                pc'[q] = pc[q] /\ target'[q] = target[q]
      BY <2>3 DEF EndRecheck, Return, Goto, TypeOK
    <3> QED BY <3>1, <3>2, <1>0, LocalStep
  <2>4. CASE EndPIMSession(p)
    BY <2>4, <1>0, EndStep
  <2>5. CASE AuditEnded(p)
    BY <2>5, <1>0, AuditStep DEF AuditEnded
  <2>6. CASE RecordAction(p)
    BY <2>6, <1>0, RecordStep
  <2> QED BY <1>2, <2>1, <2>2, <2>3, <2>4, <2>5, <2>6 DEF Continue
<1>3. CASE ExpireOverdue \/ Tick
  BY <1>3, <1>0, LapseStep
<1>4. CASE Crash
  <2>1. UNCHANGED <<now, rows, audit, grants>> /\ faults' # 0 /\ faults' # faults
    BY <1>4 DEF Crash, Fault, TypeOK
  <2>2. \A q \in Procs : pc'[q] = "idle"
    BY <1>4 DEF Crash
  <2> QED BY <2>1, <2>2, <1>0, LocalStep
<1>5. CASE UNCHANGED vars
  BY <1>5, <1>0, LocalStep DEF vars, locals
<1> QED
  BY <1>1, <1>2, <1>3, <1>4, <1>5 DEF Next

\* The inductive invariant holds throughout.
THEOREM PimInvariant == Spec => []PimInv
<1>1. Init => Typed
  BY DEF Init, Typed, TypeOK, InFlight, Labels, AuditEntry
<1>2. Init => PimInv
  BY <1>1 DEF Init, PimInv, Typed, Unused, PendingOwnsNone, OnlyOverlapDuplicates,
              CountExactWhileOpen, AuditTruthful, AuditComplete, Exists, ActiveIds
<1> QED
  BY <1>2, PimInvStep, PTL DEF Spec

----------------------------------------------------------------------------
(* What it gives *)

\* Request's check-then-insert: two active sessions of a user come from two
\* overlapping goroutines.
THEOREM DuplicatesNeedOverlap == Spec => []OnlyOverlapDuplicates
<1>1. PimInv => OnlyOverlapDuplicates
  BY DEF PimInv
<1> QED
  BY <1>1, PimInvariant, PTL

\* With one goroutine at a time, Request leaves a user at most one active session.
THEOREM SerialRequestsNoDuplicates ==
  ASSUME NEW q, Procs = {q}
  PROVE  Spec => [](faults = 0 => \A u \in Users : \A i, j \in ActiveIds(u) : i = j)
<1>1. PimInv => (faults = 0 => \A u \in Users : \A i, j \in ActiveIds(u) : i = j)
  <2> SUFFICES ASSUME PimInv, faults = 0, NEW u \in Users,
                      NEW i \in ActiveIds(u), NEW j \in ActiveIds(u), i # j
               PROVE  FALSE
    OBVIOUS
  <2>1. insertedBy[i] # insertedBy[j]
    BY DEF PimInv, OnlyOverlapDuplicates
  <2>2. /\ i \in PimIds /\ Exists(i) /\ insertedBy[i] \in Procs
        /\ j \in PimIds /\ Exists(j) /\ insertedBy[j] \in Procs
    BY DEF ActiveIds, Exists, PimInv, Unused
  <2> QED
    BY <2>1, <2>2
<1> QED
  BY <1>1, PimInvariant, PTL

\* CheckAndRecord: on an open session the counter is the number of actions let through.
THEOREM CounterExact == Spec => []CountExactWhileOpen
<1>1. PimInv => CountExactWhileOpen
  BY DEF PimInv
<1> QED
  BY <1>1, PimInvariant, PTL

\* logAudit after the fact: the log records only what happened ...
THEOREM AuditSound == Spec => []AuditTruthful
<1>1. PimInv => AuditTruthful
  BY DEF PimInv
<1> QED
  BY <1>1, PimInvariant, PTL

\* ... and, as long as no statement fails and no crash intervenes, all of it.
THEOREM AuditWhole == Spec => []AuditComplete
<1>1. PimInv => AuditComplete
  BY DEF PimInv
<1> QED
  BY <1>1, PimInvariant, PTL

\* endPIMSession, incrementPIMActionCount and ExpireOverdue all carry
\* "ended_at IS NULL": no step changes a row that has ended.
THEOREM HistoryFrozen == Spec => EndedFrozen
<1> DEFINE Frozen ==
      \A i \in PimIds : ended_at[i] # "open" =>
        /\ ended_at'[i] = ended_at[i]
        /\ action_count'[i] = action_count[i]
        /\ user_id'[i] = user_id[i]
        /\ expires_at'[i] = expires_at[i]
<1>1. PimInv /\ [Next]_vars => [Frozen]_vars
  <2> SUFFICES ASSUME PimInv, [Next]_vars PROVE Frozen
    OBVIOUS
  <2>1. ASSUME NEW p \in Procs, NEW u \in Users, Begin(p, u) PROVE Frozen
    BY <2>1 DEF Begin, RequestPIM, BreakGlass, RequestCheck, EndPIM, CheckActive, rows
  <2>2. ASSUME NEW p \in Procs, Continue(p) PROVE Frozen
    <3>1. CASE CreatePIMSession(p)
      BY <3>1 DEF CreatePIMSession, rows, PimInv, Unused, Exists, TypeOK
    <3>2. CASE AuditStarted(p) \/ AuditEnded(p) \/ EndRecheck(p)
      BY <3>2 DEF AuditStarted, AuditEnded, LogAudit, EndRecheck, rows
    <3>3. CASE EndPIMSession(p)
      BY <3>3 DEF EndPIMSession, PimInv, TypeOK
    <3>4. CASE RecordAction(p)
      BY <3>4 DEF RecordAction, PimInv, TypeOK
    <3> QED
      BY <2>2, <3>1, <3>2, <3>3, <3>4 DEF Continue
  <2>3. CASE ExpireOverdue \/ Crash \/ Tick
    BY <2>3 DEF ExpireOverdue, Crash, Tick, rows
  <2>4. CASE UNCHANGED vars
    BY <2>4 DEF vars, rows
  <2> QED
    BY <2>1, <2>2, <2>3, <2>4 DEF Next
<1> QED
  BY <1>1, PimInvariant, PTL DEF Spec, EndedFrozen

\* The privilege check compares dates, not times: it honours a session for
\* less than a day beyond expires_at.
THEOREM OverrunBounded == Spec => OverrunBelowADay
<1> DEFINE Bounded ==
      \A p \in Procs : Passes(p) => now < expires_at[target'[p]] + DayLen
<1>1. PimInv /\ [Next]_vars => [Bounded]_vars
  <2> SUFFICES ASSUME PimInv, [Next]_vars, NEW p \in Procs, Passes(p)
               PROVE  now < expires_at[target'[p]] + DayLen
    OBVIOUS
  <2>1. PICK q \in Procs, u \in Users, i \in PimIds : pc[q] = "idle" /\ Found(q, u, i, "count")
    <3>1. ASSUME NEW q \in Procs, NEW u \in Users, Begin(q, u), ~CheckActive(q, u)
          PROVE  FALSE
      BY <3>1 DEF Begin, RequestPIM, BreakGlass, RequestCheck, EndPIM, Found, Goto,
                  Passes, PimInv, TypeOK
    <3>2. ASSUME NEW q \in Procs, Continue(q) PROVE FALSE
      BY <3>2 DEF Continue, CreatePIMSession, AuditStarted, AuditEnded, LogAudit, EndRecheck,
                  EndPIMSession, RecordAction, Return, Goto, Passes, PimInv, TypeOK
    <3>3. ~(ExpireOverdue \/ Crash \/ Tick \/ UNCHANGED vars)
      BY DEF ExpireOverdue, Crash, Tick, vars, locals, Passes
    <3> QED
      BY <3>1, <3>2, <3>3 DEF Next, CheckActive
  <2>2. p = q /\ target'[p] = i
    BY <2>1 DEF Found, Goto, Passes, PimInv, TypeOK
  <2>3. LaterText(expires_at[i], now)
    BY <2>1 DEF Found, ActiveIds
  <2> QED
    BY <2>2, <2>3, DayDistance DEF PimInv, TypeOK
<1> QED
  BY <1>1, PimInvariant, PTL DEF Spec, OverrunBelowADay
=============================================================================
