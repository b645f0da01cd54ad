--------------------------- MODULE SessionsProofs ---------------------------
(***************************************************************************)
(* Proofs about login sessions, for every set of users, goroutines and     *)
(* sessions, every token lifetime and every number of failures.            *)
(***************************************************************************)
EXTENDS Sessions, TLAPS

USE SessionsAssumption

----------------------------------------------------------------------------
(* Type correctness *)

Typed == TypeOK /\ LocalsInv /\ RowsInv

\* What a request does first: it takes an idle goroutine, finds its user and the
\* session it is about, and touches no row.
Opening(p) ==
  /\ pc[p] = "idle"
  /\ UNCHANGED <<now, active, pending, rows, faults>>
  /\ \E label \in {"insert", "user", "revoke", "deactivate"}, u \in Users,
        s \in SessionIds \cup {None}, t \in Nat :
       /\ pc' = [pc EXCEPT ![p] = label]
       /\ caller' = [caller EXCEPT ![p] = u]
       /\ source' = [source EXCEPT ![p] = s]
       /\ issued' = [issued EXCEPT ![p] = t] /\ t <= now
       /\ label \in {"user", "revoke"} =>
            s \in SessionIds /\ Live(s) /\ user_id[s] = u
       /\ label = "insert" => s = None

\* Every request of the session API opens that way.
LEMMA BeginOpens ==
  ASSUME Typed, NEW p \in Procs, Begin(p)
  PROVE  Opening(p)
<1> USE DEF Typed, TypeOK, LocalsInv
<1>1. ASSUME NEW u \in Users, Login(p, u) PROVE Opening(p)
  <2>1. source' = [source EXCEPT ![p] = None]
    BY <1>1 DEF Login
  <2> QED
    BY <1>1, <2>1 DEF Login, IssueTokenPair, Opening
<1>2. ASSUME NEW label \in {"user", "revoke", "deactivate"}, NEW u \in Users,
             NEW s \in SessionIds \cup {None}, Start(p, label, u, s),
             label \in {"user", "revoke"} =>
               s \in SessionIds /\ Live(s) /\ user_id[s] = u
      PROVE  Opening(p)
  <2>1. issued' = [issued EXCEPT ![p] = issued[p]] /\ issued[p] \in Nat /\ issued[p] <= now
    BY <1>2 DEF Start
  <2> QED
    BY <1>2, <2>1 DEF Start, Opening
<1>3. ASSUME NEW s \in SessionIds, Live(s) PROVE user_id[s] \in Users
  BY <1>3 DEF Live, Exists
<1>4. ASSUME NEW s \in SessionIds, Refresh(p, s) PROVE Opening(p)
  BY <1>2, <1>3, <1>4 DEF Refresh
<1>5. ASSUME NEW s \in SessionIds, Logout(p, s) PROVE Opening(p)
  BY <1>2, <1>3, <1>5 DEF Logout
<1>6. ASSUME NEW s \in SessionIds, RevokeSession(p, s) PROVE Opening(p)
  BY <1>2, <1>3, <1>6 DEF RevokeSession
<1>7. ASSUME NEW u \in Users, BeginDeactivate(p, u) PROVE Opening(p)
  BY <1>2, <1>7 DEF BeginDeactivate
<1> QED
  BY <1>1, <1>4, <1>5, <1>6, <1>7 DEF Begin

\* The steps of the session API keep rows and locals typed and in order.
LEMMA TypedStep == Typed /\ [Next]_vars => Typed'
<1> SUFFICES ASSUME Typed, [Next]_vars PROVE Typed'
  OBVIOUS
<1> USE DEF Typed, TypeOK, LocalsInv, RowsInv, Labels, Exists, Live, rows,
            Goto, Return
<1>1. ASSUME NEW p \in Procs, Begin(p) PROVE Typed'
  BY <1>1, BeginOpens DEF Opening
<1>2. ASSUME NEW p \in Procs, Continue(p) PROVE Typed'
  <2>1. CASE ReadUser(p)
    BY <2>1 DEF ReadUser
  <2>2. CASE Rotate(p)
    BY <2>2 DEF Rotate, SetRevoked, IssueTokenPair
  <2>3. CASE CreateSession(p)
    <3>1. PICK s \in SessionIds : CreateSession(p)!2!(s)
      BY <2>3 DEF CreateSession
    <3>2. /\ pc[p] = "insert" /\ caller[p] \in Users
          /\ UNCHANGED <<now, active, pending, revoked_at, faults>> /\ Return(p)
      BY <2>3 DEF CreateSession
    <3>3. active[caller[p]] = TRUE \/ active[caller[p]] = FALSE
      BY <3>2
    <3>4. TypeOK'
      <4>1. late' \in [SessionIds -> BOOLEAN]
        BY <3>1, <3>3
      <4> QED BY <3>1, <3>2, <4>1
    <3>5. LocalsInv'
      BY <3>1, <3>2
    <3>6. RowsInv'
      BY <3>1, <3>2
    <3> QED BY <3>4, <3>5, <3>6
  <2>4. CASE Revoke(p)
    <3>1. revoked_at' = [revoked_at EXCEPT ![source[p]] = now] /\ source[p] \in SessionIds
      BY <2>4 DEF Revoke, SetRevoked
    <3>2. TypeOK' /\ LocalsInv'
      BY <2>4, <3>1 DEF Revoke
    <3>3. RowsInv'
      BY <2>4, <3>1 DEF Revoke
    <3> QED BY <3>2, <3>3
  <2>5. CASE DeactivateUser(p)
    BY <2>5 DEF DeactivateUser
  <2>6. CASE RevokeAll(p)
    BY <2>6 DEF RevokeAll
  <2>7. CASE StatementFails(p)
    BY <2>7 DEF StatementFails
  <2>8. CASE AskSecondFactor(p)
    BY <2>8 DEF AskSecondFactor
  <2> QED BY <1>2, <2>1, <2>2, <2>3, <2>4, <2>5, <2>6, <2>7, <2>8 DEF Continue
<1>3. CASE Crash
  BY <1>3 DEF Crash
<1>4. CASE Tick
  BY <1>4 DEF Tick, locals
<1>5. CASE UNCHANGED vars
  BY <1>5 DEF vars, locals
<1> QED
  BY <1>1, <1>2, <1>3, <1>4, <1>5 DEF Next

\* The empty table is well typed.
LEMMA TypedInit == Init => Typed
<1> SUFFICES ASSUME Init PROVE Typed
  OBVIOUS
<1>1. active \in [Users -> BOOLEAN] /\ late \in [SessionIds -> BOOLEAN]
  BY Zenon DEF Init
<1>2. TypeOK
  BY <1>1 DEF Init, TypeOK, Labels
<1>3. LocalsInv /\ RowsInv
  BY DEF Init, LocalsInv, RowsInv, Exists
<1> QED
  BY <1>2, <1>3 DEF Typed

\* Types, and with them the order of issue and revocation, hold throughout.
LEMMA TypedAlways == Spec => []Typed
  BY TypedInit, TypedStep, PTL DEF Spec

\* Handlers, failures, crashes and the clock keep the sessions table and every
\* local in its type.
THEOREM TypeCorrect == Spec => []TypeOK
<1>1. Typed => TypeOK
  BY DEF Typed
<1> QED
  BY <1>1, TypedAlways, PTL

\* An access token outlives the revocation of its session by less than its
\* lifetime, although no request ever looks at the row.
THEOREM RevocationTakesEffect == Spec => []RevokedDiesWithToken
<1>1. Typed => RevokedDiesWithToken
  BY DEF Typed, TypeOK, RowsInv, RevokedDiesWithToken, Accepted
<1> QED
  BY <1>1, TypedAlways, PTL

----------------------------------------------------------------------------
(* Rotation *)

RotationInv == PendingRotated /\ RotatedIsRevoked /\ PendingFirst /\ ForkNeedsOverlap

\* Revocations are never undone, so that a step that adds no session and brings
\* no goroutine nearer to one keeps the rotation sound.
LEMMA RotationQuiet ==
  ASSUME Typed, RotationInv, faults' = 0 => faults = 0,
         UNCHANGED <<parent, insertedBy>>,
         \A s \in SessionIds : revoked_at[s] # None => revoked_at'[s] # None,
         \A q \in Procs :
           \/ pc'[q] \notin {"user", "rotate", "insert"}
           \/ pc'[q] = pc[q] /\ source'[q] = source[q]
           \/ pc[q] = "user" /\ pc'[q] = "rotate" /\ source'[q] = source[q]
           \/ source'[q] = None
  PROVE  RotationInv'
<1> USE DEF Typed, TypeOK, RotationInv
<1>1. PendingRotated'
  BY DEF PendingRotated
<1>2. RotatedIsRevoked'
  BY DEF RotatedIsRevoked
<1>3. PendingFirst'
  BY DEF PendingFirst
<1>4. ForkNeedsOverlap'
  BY DEF ForkNeedsOverlap
<1> QED
  BY <1>1, <1>2, <1>3, <1>4

\* Every step of the session API keeps the rotation sound.
LEMMA RotationStep == Typed /\ RotationInv /\ [Next]_vars => RotationInv'
<1> SUFFICES ASSUME Typed, RotationInv, [Next]_vars PROVE RotationInv'
  OBVIOUS
<1> USE DEF Typed, TypeOK, rows
<1>1. ASSUME NEW p \in Procs, Begin(p) PROVE RotationInv'
  <2>1. PICK label \in {"insert", "user", "revoke", "deactivate"}, u \in Users,
             s \in SessionIds \cup {None} :
           /\ pc' = [pc EXCEPT ![p] = label] /\ source' = [source EXCEPT ![p] = s]
           /\ label = "user" => s \in SessionIds /\ Live(s)
           /\ label = "insert" => s = None
    BY <1>1, BeginOpens DEF Opening
  <2>2. UNCHANGED <<faults, parent, insertedBy, revoked_at>>
    BY <1>1, BeginOpens DEF Opening
  <2>3. CASE label = "user"
    \* The session is live, so that without failures it has no successor yet.
    <3>1. faults = 0 => \A t \in SessionIds : parent[t] # s
      BY <2>1, <2>3 DEF RotationInv, RotatedIsRevoked, Live
    <3>2. PendingFirst'
      BY <2>1, <2>2, <2>3, <3>1 DEF RotationInv, PendingFirst
    <3>3. PendingRotated'
      BY <2>1, <2>2, <2>3 DEF RotationInv, PendingRotated
    <3> QED
      BY <2>2, <3>2, <3>3 DEF RotationInv, RotatedIsRevoked, ForkNeedsOverlap
  <2>4. CASE label # "user"
    BY <2>1, <2>2, <2>4, RotationQuiet
  <2> QED BY <2>3, <2>4
<1>2. ASSUME NEW p \in Procs, Continue(p) PROVE RotationInv'
  <2>1. CASE ReadUser(p)
    BY <2>1, RotationQuiet DEF ReadUser, Goto, Return
  <2>2. CASE Rotate(p)
    <3>1. /\ pc[p] = "rotate" /\ source[p] \in SessionIds
          /\ pc' = [pc EXCEPT ![p] = "insert"]
          /\ UNCHANGED <<source, parent, insertedBy>>
      BY <2>2 DEF Rotate, IssueTokenPair, LocalsInv
    <3>2. CASE SetRevoked(source[p]) /\ UNCHANGED faults
      <4>1. \A s \in SessionIds : revoked_at[s] # None => revoked_at'[s] # None
        BY <3>2 DEF SetRevoked
      <4>2. revoked_at'[source[p]] # None
        BY <3>1, <3>2 DEF SetRevoked
      <4>3. PendingRotated' /\ PendingFirst'
        BY <3>1, <3>2, <4>1, <4>2 DEF RotationInv, PendingRotated, PendingFirst
      <4> QED
        BY <3>1, <3>2, <4>1, <4>3 DEF RotationInv, RotatedIsRevoked, ForkNeedsOverlap
    <3>3. CASE faults' = faults + 1
      BY <3>3 DEF RotationInv, PendingRotated, PendingFirst, RotatedIsRevoked, ForkNeedsOverlap
    <3> QED BY <2>2, <3>2, <3>3 DEF Rotate
  <2>3. CASE CreateSession(p)
    <3>1. PICK s \in SessionIds : CreateSession(p)!2!(s)
      BY <2>3 DEF CreateSession
    <3>2. /\ pc[p] = "insert" /\ UNCHANGED <<revoked_at, faults>>
          /\ pc'[p] = "idle"
          /\ \A q \in Procs \ {p} : pc'[q] = pc[q] /\ source'[q] = source[q]
      BY <2>3 DEF CreateSession, Return
    <3>3. PendingRotated'
      BY <3>2 DEF RotationInv, PendingRotated
    <3>4. RotatedIsRevoked'
      BY <3>1, <3>2 DEF RotationInv, PendingRotated, RotatedIsRevoked
    <3>5. PendingFirst'
      BY <3>1, <3>2 DEF RotationInv, PendingFirst
    <3>6. ForkNeedsOverlap'
      BY <3>1, <3>2 DEF RotationInv, PendingFirst, ForkNeedsOverlap
    <3> QED BY <3>3, <3>4, <3>5, <3>6 DEF RotationInv
  <2>4. CASE Revoke(p)
    BY <2>4, RotationQuiet DEF Revoke, SetRevoked, Return
  <2>5. CASE DeactivateUser(p)
    BY <2>5, RotationQuiet DEF DeactivateUser, Goto
  <2>6. CASE RevokeAll(p)
    BY <2>6, RotationQuiet DEF RevokeAll, Return
  <2>7. CASE StatementFails(p)
    BY <2>7, RotationQuiet DEF StatementFails, Return
  <2>8. CASE AskSecondFactor(p)
    BY <2>8, RotationQuiet DEF AskSecondFactor, Return
  <2> QED BY <1>2, <2>1, <2>2, <2>3, <2>4, <2>5, <2>6, <2>7, <2>8 DEF Continue
<1>3. CASE Crash
  BY <1>3, RotationQuiet DEF Crash
<1>4. CASE Tick
  BY <1>4, RotationQuiet DEF Tick, locals
<1>5. CASE UNCHANGED vars
  BY <1>5, RotationQuiet DEF vars, locals
<1> QED
  BY <1>1, <1>2, <1>3, <1>4, <1>5 DEF Next

\* The rotation invariant holds throughout.
LEMMA RotationAlways == Spec => []RotationInv
<1>1. Init => RotationInv
  BY DEF Init, RotationInv, PendingRotated, RotatedIsRevoked, PendingFirst, ForkNeedsOverlap
<1> QED
  BY <1>1, TypedAlways, RotationStep, PTL DEF Spec

\* Without failures a session whose refresh token was exchanged is revoked.
THEOREM RotationRevokes == Spec => []RotatedIsRevoked
<1>1. RotationInv => RotatedIsRevoked
  BY DEF RotationInv
<1> QED
  BY <1>1, RotationAlways, PTL

\* Requests that do not overlap never get two sessions out of one refresh token.
THEOREM SerialRotation == Spec => []ForkNeedsOverlap
<1>1. RotationInv => ForkNeedsOverlap
  BY DEF RotationInv
<1> QED
  BY <1>1, RotationAlways, PTL

----------------------------------------------------------------------------
(* Deactivation *)

DeactivationInv == LateInv /\ StragglersEnd /\ OnlyStragglersSurvive

\* A step that leaves the accounts and the set of sessions alone, revokes if
\* anything, and lets no goroutine pass the look at the user.
LEMMA DeactivationQuiet ==
  ASSUME Typed, DeactivationInv, faults' = 0 => faults = 0,
         UNCHANGED <<active, user_id, parent, late>>,
         \A s \in SessionIds : revoked_at[s] # None => revoked_at'[s] # None,
         \A q \in Procs :
           \/ pc'[q] \notin {"rotate", "insert"}
           \/ pc[q] \in {"rotate", "insert"} /\ source'[q] = source[q]
           \/ source'[q] = None,
         faults' = 0 => \A q \in Procs : pc[q] = "revokeAll" =>
           pc'[q] = "revokeAll" /\ caller'[q] = caller[q]
  PROVE  DeactivationInv'
<1> USE DEF Typed, TypeOK, DeactivationInv
<1>1. LateInv'
  BY DEF LateInv
<1>2. StragglersEnd'
  BY DEF StragglersEnd
<1>3. OnlyStragglersSurvive'
  BY DEF OnlyStragglersSurvive, Live, Exists
<1> QED
  BY <1>1, <1>2, <1>3

\* Every step of the session API keeps deactivated accounts on their way out.
LEMMA DeactivationStep == Typed /\ DeactivationInv /\ [Next]_vars => DeactivationInv'
<1> SUFFICES ASSUME Typed, DeactivationInv, [Next]_vars PROVE DeactivationInv'
  OBVIOUS
<1> USE DEF Typed, TypeOK, rows
<1>1. ASSUME NEW p \in Procs, Begin(p) PROVE DeactivationInv'
  BY <1>1, BeginOpens, DeactivationQuiet DEF Opening
<1>2. ASSUME NEW p \in Procs, Continue(p) PROVE DeactivationInv'
  <2>1. CASE ReadUser(p)
    <3>1. /\ pc[p] = "user" /\ source[p] \in SessionIds /\ user_id[source[p]] = caller[p]
          /\ UNCHANGED <<active, user_id, parent, late, revoked_at, faults>>
          /\ \A q \in Procs \ {p} :
               pc'[q] = pc[q] /\ source'[q] = source[q] /\ caller'[q] = caller[q]
          /\ \/ pc'[p] = "idle"
             \/ active[caller[p]] /\ source'[p] = source[p] /\ pc'[p] = "rotate"
      BY <2>1 DEF ReadUser, Goto, Return, LocalsInv
    <3>2. LateInv'
      BY <3>1 DEF DeactivationInv, LateInv
    <3>3. StragglersEnd'
      BY <3>1 DEF DeactivationInv, StragglersEnd
    <3>4. OnlyStragglersSurvive'
      BY <3>1 DEF DeactivationInv, OnlyStragglersSurvive, Live, Exists
    <3> QED BY <3>2, <3>3, <3>4 DEF DeactivationInv
  <2>2. CASE Rotate(p)
    BY <2>2, DeactivationQuiet DEF Rotate, SetRevoked, IssueTokenPair
  <2>3. CASE CreateSession(p)
    <3>1. PICK s \in SessionIds : CreateSession(p)!2!(s)
      BY <2>3 DEF CreateSession
    <3>2. /\ pc[p] = "insert" /\ UNCHANGED <<revoked_at, faults, active>>
          /\ pc'[p] = "idle" /\ caller[p] \in Users
          /\ \A q \in Procs \ {p} :
               pc'[q] = pc[q] /\ source'[q] = source[q] /\ caller'[q] = caller[q]
      BY <2>3 DEF CreateSession, Return, LocalsInv
    <3>3. /\ user_id'[s] = caller[p] /\ parent'[s] = source[p]
          /\ late'[s] <=> ~active[caller[p]]
          /\ \A t \in SessionIds \ {s} :
               user_id'[t] = user_id[t] /\ parent'[t] = parent[t] /\ late'[t] = late[t]
      BY <3>1
    <3>4. \A t \in SessionIds : parent[t] # s
      BY <3>1 DEF RowsInv, Exists
    <3>5. \A q \in Procs : pc[q] \in {"rotate", "insert"} => source[q] # s
      BY <3>1 DEF LocalsInv
    <3>6. LateInv'
      BY <3>2, <3>3, <3>5 DEF DeactivationInv, LateInv
    <3>7. StragglersEnd'
      BY <3>2, <3>3, <3>4, <3>5 DEF DeactivationInv, StragglersEnd, LateInv
    <3>8. OnlyStragglersSurvive'
      BY <3>2, <3>3 DEF DeactivationInv, OnlyStragglersSurvive, Live, Exists
    <3> QED BY <3>6, <3>7, <3>8 DEF DeactivationInv
  <2>4. CASE Revoke(p)
    BY <2>4, DeactivationQuiet DEF Revoke, SetRevoked, Return
  <2>5. CASE DeactivateUser(p)
    <3>1. /\ pc[p] = "deactivate" /\ caller[p] \in Users
          /\ UNCHANGED <<user_id, parent, late, revoked_at, faults>>
          /\ \A u \in Users : u # caller[p] => active'[u] = active[u]
          /\ ~active'[caller[p]] /\ UNCHANGED <<source, caller>>
          /\ pc'[p] = "revokeAll" /\ \A q \in Procs \ {p} : pc'[q] = pc[q]
      BY <2>5 DEF DeactivateUser, Goto, LocalsInv
    <3>2. LateInv'
      <4>1. \A s \in SessionIds : late[s] => user_id[s] \in Users
        BY DEF RowsInv, Exists
      <4> QED BY <3>1, <4>1 DEF DeactivationInv, LateInv
    <3>3. StragglersEnd'
      BY <3>1 DEF DeactivationInv, StragglersEnd
    <3>4. OnlyStragglersSurvive'
      BY <3>1 DEF DeactivationInv, OnlyStragglersSurvive, Live, Exists
    <3> QED BY <3>2, <3>3, <3>4 DEF DeactivationInv
  <2>6. CASE RevokeAll(p)
    <3>1. /\ pc[p] = "revokeAll" /\ UNCHANGED <<active, user_id, parent, late, faults>>
          /\ \A s \in SessionIds : revoked_at[s] # None => revoked_at'[s] # None
          /\ \A s \in SessionIds : user_id[s] = caller[p] /\ Exists(s) => revoked_at'[s] # None
          /\ pc'[p] = "idle"
          /\ \A q \in Procs \ {p} :
               pc'[q] = pc[q] /\ source'[q] = source[q] /\ caller'[q] = caller[q]
      BY <2>6 DEF RevokeAll, Return, Live
    <3>2. LateInv'
      BY <3>1 DEF DeactivationInv, LateInv
    <3>3. StragglersEnd'
      BY <3>1 DEF DeactivationInv, StragglersEnd
    <3>4. OnlyStragglersSurvive'
      BY <3>1 DEF DeactivationInv, OnlyStragglersSurvive, Live, Exists
    <3> QED BY <3>2, <3>3, <3>4 DEF DeactivationInv
  <2>7. CASE StatementFails(p)
    BY <2>7, DeactivationQuiet DEF StatementFails, Return
  <2>8. CASE AskSecondFactor(p)
    BY <2>8, DeactivationQuiet DEF AskSecondFactor, Return
  <2> QED BY <1>2, <2>1, <2>2, <2>3, <2>4, <2>5, <2>6, <2>7, <2>8 DEF Continue
<1>3. CASE Crash
  BY <1>3, DeactivationQuiet DEF Crash
<1>4. CASE Tick
  BY <1>4, DeactivationQuiet DEF Tick, locals
<1>5. CASE UNCHANGED vars
  BY <1>5, DeactivationQuiet DEF vars, locals
<1> QED
  BY <1>1, <1>2, <1>3, <1>4, <1>5 DEF Next

\* The deactivation invariant holds throughout.
LEMMA DeactivationAlways == Spec => []DeactivationInv
<1>1. Init => DeactivationInv
  BY DEF Init, DeactivationInv, LateInv, StragglersEnd, OnlyStragglersSurvive, Live, Exists
<1> QED
  BY <1>1, TypedAlways, DeactivationStep, PTL DEF Spec

\* Whatever fails, a session that slipped past a deactivation is never renewed.
THEOREM StragglersAreFinal == Spec => []StragglersEnd
<1>1. DeactivationInv => StragglersEnd
  BY DEF DeactivationInv
<1> QED
  BY <1>1, DeactivationAlways, PTL

\* Without failures only such stragglers survive a completed deactivation.
THEOREM DeactivationCloses == Spec => []OnlyStragglersSurvive
<1>1. DeactivationInv => OnlyStragglersSurvive
  BY DEF DeactivationInv
<1> QED
  BY <1>1, DeactivationAlways, PTL

\* The parts together are the inductive invariant of module Sessions.
THEOREM SessionsInvariant == Spec => []SessionsInv
<1>1. Typed /\ RotationInv /\ DeactivationInv /\ RevokedDiesWithToken => SessionsInv
  BY DEF Typed, RotationInv, DeactivationInv, SessionsInv
<1> QED
  BY <1>1, TypedAlways, RotationAlways, DeactivationAlways, RevocationTakesEffect, PTL
=============================================================================
