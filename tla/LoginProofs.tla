---------------------------- MODULE LoginProofs ----------------------------
(***************************************************************************)
(* Proofs about the login limiter and multi-factor sign-in, for any number *)
(* of addresses, goroutines, codes and set-ups, and any thresholds.        *)
(***************************************************************************)
EXTENDS Login, FiniteSetTheorems, TLAPS

USE LoginAssumption, RateLimitAssumption

TablesTypeOK ==
  /\ creds \subseteq Setups
  /\ setups \in 0 .. MaxSetups
  /\ stored \in Lists
  /\ uses \in [Setups -> [CodeNames -> Nat]]

LocalsTypeOK ==
  /\ loginPc \in [LoginProcs -> LoginLabels]
  /\ ip \in [LoginProcs -> IPs \cup {NoEntry}]
  /\ setup \in [LoginProcs -> 0 .. MaxSetups]
  /\ list \in [LoginProcs -> Lists]
  /\ code \in [LoginProcs -> CodeNames \cup {NoEntry}]

FlagsTypeOK ==
  /\ lostUpdate \in BOOLEAN /\ onTheDot \in BOOLEAN /\ challenged \in BOOLEAN
  /\ loginFaults \in Nat

\* What the locals of a goroutine are worth at its label.
Stages == \A p \in LoginProcs :
  /\ loginPc[p] = "password" => ip[p] \in IPs
  /\ loginPc[p] = "writeCodes" =>
       list[p].setup \in 1 .. setups /\ code[p] \in list[p].unused
  /\ loginPc[p] = "storeCodes" => setup[p] \in 1 .. setups

\* The stored list belongs to a set-up that has begun, or there is none.
StoredFits ==
  /\ stored.setup <= setups
  /\ stored.setup = 0 => stored.unused = {}

Typed ==
  LimiterTypeOK /\ TablesTypeOK /\ LocalsTypeOK /\ FlagsTypeOK /\ Stages /\ StoredFits

\* A handler that returns has locals that mean nothing.
LEMMA ReturnTyped ==
  ASSUME LocalsTypeOK, Stages, NEW p \in LoginProcs, LoginReturn(p), UNCHANGED setups
  PROVE  LocalsTypeOK' /\ Stages'
<1> USE DEF LocalsTypeOK, LoginReturn, LoginGoto
<1>1. loginPc' \in [LoginProcs -> LoginLabels] /\ ip' \in [LoginProcs -> IPs \cup {NoEntry}]
  BY DEF LoginLabels
<1>2. NoCodes \in Lists
  BY DEF NoCodes, Lists
<1>3. setup' \in [LoginProcs -> 0 .. MaxSetups] /\ list' \in [LoginProcs -> Lists]
  BY <1>2
<1>4. code' \in [LoginProcs -> CodeNames \cup {NoEntry}]
  OBVIOUS
<1>5. Stages'
  BY DEF Stages
<1> QED BY <1>1, <1>3, <1>4, <1>5

\* Types and stages hold at the start.
LEMMA TypedInit == LoginInit => Typed
<1> SUFFICES ASSUME LoginInit PROVE Typed
  OBVIOUS
<1> USE DEF LoginInit
<1>1. LimiterTypeOK
  BY DEF New, LimiterTypeOK, Never
<1>2. NoCodes \in Lists
  BY DEF NoCodes, Lists
<1>3. TablesTypeOK
  BY <1>2 DEF TablesTypeOK, Setups
<1>4. LocalsTypeOK
  BY <1>2 DEF LocalsTypeOK, LoginLabels
<1>5. FlagsTypeOK
  BY DEF FlagsTypeOK
<1>6. Stages /\ StoredFits
  BY DEF Stages, StoredFits, NoCodes
<1> QED BY <1>1, <1>3, <1>4, <1>5, <1>6 DEF Typed

\* A failure or a success keeps the limiter's types.
LEMMA LimiterStep ==
  ASSUME LimiterTypeOK, NEW a \in IPs, RecordFailure(a) \/ Reset(a), UNCHANGED time
  PROVE  LimiterTypeOK'
<1> USE DEF LimiterTypeOK
<1>1. CASE RecordFailure(a)
  <2> DEFINE n == IF Expired(a) THEN 1 ELSE attempts[a] + 1
  <2>1. n \in Nat
    OBVIOUS
  <2>2. attempts' = [attempts EXCEPT ![a] = n]
    BY <1>1 DEF RecordFailure
  <2> DEFINE until == CASE n >= MaxAttemptsLong -> time + LockoutDurationLong
                       [] n >= MaxAttemptsShort /\ n < MaxAttemptsLong -> time + LockoutDurationShort
                       [] n < MaxAttemptsShort -> IF Expired(a) THEN Never ELSE lockedUntil[a]
  <2>3. lockedUntil' = [lockedUntil EXCEPT ![a] = until]
    BY <1>1 DEF RecordFailure
  <2>4. until \in Nat
    <3> HIDE DEF n
    <3>1. (IF Expired(a) THEN Never ELSE lockedUntil[a]) \in Nat
      BY DEF Never
    <3> QED BY <2>1, <3>1 DEF RateLimitAssumption
  <2> HIDE DEF n, until
  <2> QED BY <1>1, <2>1, <2>2, <2>3, <2>4
<1>2. CASE Reset(a)
  BY <1>2 DEF Reset, Never
<1> QED BY <1>1, <1>2

\* Every step keeps types and stages.
LEMMA TypedStep == Typed /\ [LoginNext]_loginVars => Typed'
<1> SUFFICES ASSUME Typed, [LoginNext]_loginVars PROVE Typed'
  OBVIOUS
<1> USE DEF Typed
<1>1. ASSUME NEW p \in LoginProcs, NEW a \in IPs, BeginLogin(p, a) PROVE Typed'
  <2>1. LocalsTypeOK'
    BY <1>1 DEF BeginLogin, LocalsTypeOK, LoginGoto, LoginLabels
  <2>2. Stages'
    BY <1>1 DEF BeginLogin, LocalsTypeOK, Stages, LoginGoto, mfa
  <2> QED BY <1>1, <2>1, <2>2
        DEF BeginLogin, mfa, limits, limiter, TablesTypeOK, FlagsTypeOK, LimiterTypeOK, StoredFits
<1>2. ASSUME NEW p \in LoginProcs, PasswordWrong(p) PROVE Typed'
  <2>1. LocalsTypeOK' /\ Stages'
    BY <1>2, ReturnTyped DEF PasswordWrong, mfa
  <2>2. LimiterTypeOK'
    BY <1>2, LimiterStep DEF PasswordWrong, Stages
  <2>3. onTheDot' \in BOOLEAN
    BY <1>2 DEF PasswordWrong, FlagsTypeOK
  <2> QED BY <1>2, <2>1, <2>2, <2>3 DEF PasswordWrong, mfa, TablesTypeOK, FlagsTypeOK, StoredFits
<1>3. ASSUME NEW p \in LoginProcs, PasswordRight(p) PROVE Typed'
  <2>1. LimiterTypeOK'
    BY <1>3, LimiterStep DEF PasswordRight, Stages
  <2>2. LocalsTypeOK' /\ Stages'
    BY <1>3 DEF PasswordRight, LocalsTypeOK, Stages, LoginGoto, LoginLabels, mfa
  <2> QED BY <1>3, <2>1, <2>2 DEF PasswordRight, mfa, TablesTypeOK, FlagsTypeOK, StoredFits
<1>4. ASSUME NEW p \in LoginProcs, ListMFA(p) PROVE Typed'
  <2>1. LocalsTypeOK' /\ Stages'
    BY <1>4, ReturnTyped DEF ListMFA, mfa
  <2>2. challenged' \in BOOLEAN
    BY <1>4 DEF ListMFA, FlagsTypeOK
  <2> QED BY <1>4, <2>1, <2>2
        DEF ListMFA, mfa, limits, limiter, TablesTypeOK, FlagsTypeOK, LimiterTypeOK, StoredFits
<1>5. ASSUME NEW p \in LoginProcs, BeginBackupCode(p) PROVE Typed'
  <2>1. LocalsTypeOK' /\ Stages'
    BY <1>5 DEF BeginBackupCode, LocalsTypeOK, Stages, LoginGoto, LoginLabels, mfa
  <2> QED BY <1>5, <2>1
        DEF BeginBackupCode, mfa, limits, limiter, TablesTypeOK, FlagsTypeOK, LimiterTypeOK, StoredFits
<1>6. ASSUME NEW p \in LoginProcs, UseBackupCode(p) PROVE Typed'
  <2>1. LocalsTypeOK' /\ Stages'
    <3>1. CASE LoginReturn(p)
      BY <1>6, <3>1, ReturnTyped DEF UseBackupCode, mfa
    <3>2. CASE ~LoginReturn(p)
      <4>1. PICK c \in stored.unused :
              /\ list' = [list EXCEPT ![p] = stored]
              /\ code' = [code EXCEPT ![p] = c]
              /\ loginPc' = [loginPc EXCEPT ![p] = "writeCodes"]
              /\ UNCHANGED <<ip, setup, setups>>
        BY <1>6, <3>2 DEF UseBackupCode, LoginGoto, mfa
      <4>2. c \in CodeNames /\ stored.setup \in 1 .. setups
        BY DEF TablesTypeOK, Lists, StoredFits
      <4>3. LocalsTypeOK'
        BY <4>1, <4>2 DEF LocalsTypeOK, TablesTypeOK, LoginLabels
      <4>4. Stages'
        BY <4>1, <4>2 DEF Stages, LocalsTypeOK
      <4> QED BY <4>3, <4>4
    <3> QED BY <3>1, <3>2
  <2> QED BY <1>6, <2>1
        DEF UseBackupCode, mfa, limits, limiter, TablesTypeOK, FlagsTypeOK, LimiterTypeOK, StoredFits
<1>7. ASSUME NEW p \in LoginProcs, WriteCodes(p) PROVE Typed'
  <2>1. LocalsTypeOK' /\ Stages'
    BY <1>7, ReturnTyped DEF WriteCodes
  <2>2. list[p] \in Lists /\ list[p].setup \in 1 .. setups /\ code[p] \in CodeNames
    BY <1>7 DEF WriteCodes, Stages, LocalsTypeOK, Lists
  <2>3. uses' \in [Setups -> [CodeNames -> Nat]]
    <3>1. list[p].setup \in Setups
      BY <2>2 DEF Setups, TablesTypeOK, LoginAssumption
    <3>2. uses' = [uses EXCEPT ![list[p].setup][code[p]] = @ + 1]
      BY <1>7 DEF WriteCodes
    <3> QED BY <2>2, <3>1, <3>2 DEF TablesTypeOK
  <2>4. stored' \in Lists /\ StoredFits'
    <3>1. CASE stored' = stored
      BY <1>7, <3>1 DEF WriteCodes, TablesTypeOK, StoredFits
    <3>2. CASE stored' = [list[p] EXCEPT !.unused = @ \ {code[p]}]
      BY <1>7, <2>2, <3>2 DEF WriteCodes, TablesTypeOK, StoredFits, Lists
    <3> QED BY <1>7, <3>1, <3>2 DEF WriteCodes
  <2>5. lostUpdate' \in BOOLEAN
    BY <1>7 DEF WriteCodes, FlagsTypeOK
  <2>6. loginFaults' \in Nat
    BY <1>7 DEF WriteCodes, FlagsTypeOK
  <2> QED BY <1>7, <2>1, <2>3, <2>4, <2>5, <2>6
        DEF WriteCodes, limits, limiter, TablesTypeOK, FlagsTypeOK, LimiterTypeOK
<1>8. ASSUME NEW p \in LoginProcs, CreateMFACredential(p) PROVE Typed'
  <2>1. setups' = setups + 1 /\ setups' \in 0 .. MaxSetups /\ setups' \in Setups
    BY <1>8 DEF CreateMFACredential, TablesTypeOK, Setups, LoginAssumption
  <2>2. LocalsTypeOK'
    BY <1>8, <2>1 DEF CreateMFACredential, LocalsTypeOK, LoginGoto, LoginLabels
  <2>3. Stages'
    BY <1>8, <2>1 DEF CreateMFACredential, LocalsTypeOK, TablesTypeOK, Stages, LoginGoto
  <2>4. StoredFits'
    <3>1. stored.setup \in Int
      BY DEF TablesTypeOK, Lists
    <3> QED BY <1>8, <2>1, <3>1 DEF CreateMFACredential, StoredFits, TablesTypeOK
  <2> QED BY <1>8, <2>1, <2>2, <2>3, <2>4
        DEF CreateMFACredential, limits, limiter, TablesTypeOK, FlagsTypeOK, LimiterTypeOK
<1>9. ASSUME NEW p \in LoginProcs, StoreCodes(p) PROVE Typed'
  <2>1. LocalsTypeOK' /\ Stages'
    BY <1>9, ReturnTyped DEF StoreCodes
  <2>2. setup[p] \in 1 .. setups /\ setup[p] \in 0 .. MaxSetups
    BY <1>9 DEF StoreCodes, Stages, LocalsTypeOK
  <2>3. stored' \in Lists /\ StoredFits'
    BY <1>9, <2>2 DEF StoreCodes, Lists, StoredFits, TablesTypeOK
  <2> QED BY <1>9, <2>1, <2>3
        DEF StoreCodes, limits, limiter, TablesTypeOK, FlagsTypeOK, LimiterTypeOK
<1>10. ASSUME NEW p \in LoginProcs, LoginFails(p) PROVE Typed'
  <2>1. LocalsTypeOK' /\ Stages'
    BY <1>10, ReturnTyped DEF LoginFails, mfa
  <2> QED BY <1>10, <2>1
        DEF LoginFails, mfa, limits, limiter, TablesTypeOK, FlagsTypeOK, LimiterTypeOK, StoredFits
<1>11. ASSUME NEW c \in Setups, RemoveCredential(c) PROVE Typed'
  BY <1>11 DEF RemoveCredential, loginLocals, limits, limiter, TablesTypeOK, LocalsTypeOK,
               FlagsTypeOK, LimiterTypeOK, Stages, StoredFits
<1>12. CASE RunCleanup
  <2>1. LimiterTypeOK'
    BY <1>12 DEF RunCleanup, Cleanup, LimiterTypeOK, Never
  <2> QED BY <1>12, <2>1
        DEF RunCleanup, mfa, loginLocals, TablesTypeOK, LocalsTypeOK, FlagsTypeOK, Stages, StoredFits
<1>13. CASE Restart
  <2>1. NoCodes \in Lists
    BY DEF NoCodes, Lists
  <2>2. LocalsTypeOK'
    BY <1>13, <2>1 DEF Restart, LocalsTypeOK, LoginLabels
  <2>3. Stages'
    BY <1>13 DEF Restart, Stages
  <2>4. LimiterTypeOK'
    BY <1>13 DEF Restart, LimiterTypeOK, Never
  <2>5. TablesTypeOK' /\ FlagsTypeOK' /\ StoredFits'
    BY <1>13 DEF Restart, mfa, TablesTypeOK, FlagsTypeOK, StoredFits
  <2> QED BY <2>2, <2>3, <2>4, <2>5
<1>14. CASE LoginTick
  BY <1>14 DEF LoginTick, mfa, loginLocals, limits, limiter, TablesTypeOK, LocalsTypeOK, FlagsTypeOK,
               LimiterTypeOK, Stages, StoredFits
<1>15. CASE UNCHANGED loginVars
  BY <1>15 DEF loginVars, mfa, loginLocals, limits, limiter, TablesTypeOK, LocalsTypeOK, FlagsTypeOK,
               LimiterTypeOK, Stages, StoredFits
<1> QED
  BY <1>1, <1>2, <1>3, <1>4, <1>5, <1>6, <1>7, <1>8, <1>9, <1>10, <1>11, <1>12, <1>13, <1>14, <1>15
     DEF LoginNext, Handle

\* Limiter, tables and locals keep their types.
THEOREM TypeCorrect == LoginSpec => []LoginTypeOK
<1>1. Typed => LoginTypeOK
  BY DEF Typed, LoginTypeOK, TablesTypeOK, LocalsTypeOK, FlagsTypeOK
<1> QED BY <1>1, TypedInit, TypedStep, PTL DEF LoginSpec
----------------------------------------------------------------------------
(* Backup codes *)

\* No code of the set-up has paid for a sign-in.
Fresh(s) == \A c \in CodeNames : uses[s][c] = 0

\* A code signed in at most once, and those that still stand in the list never.  A list about to
\* be stored is new, and each of two handlers stores one of its own.
Once ==
  /\ \A s \in Setups, c \in CodeNames : uses[s][c] <= 1
  /\ \A c \in stored.unused : uses[stored.setup][c] = 0
  /\ \A s \in Setups : s > setups => Fresh(s)
  /\ \A p \in LoginProcs : loginPc[p] = "storeCodes" =>
       /\ Fresh(setup[p]) /\ stored.setup # setup[p]
       /\ \A q \in LoginProcs : q # p /\ loginPc[q] = "storeCodes" => setup[q] # setup[p]

CodesInv ==
  /\ Typed
  /\ loginFaults = 0 /\ ~lostUpdate => Once
  /\ MfaHasCodes

\* A step that leaves the tables alone and brings no goroutine to the store keeps both.
LEMMA CodesUntouched ==
  ASSUME CodesInv, UNCHANGED <<stored, uses, setups, lostUpdate>>,
         loginFaults' = loginFaults \/ loginFaults' # 0,
         \A p \in LoginProcs : loginPc'[p] = "storeCodes" => loginPc[p] = "storeCodes" /\ setup'[p] = setup[p]
  PROVE  loginFaults' = 0 /\ ~lostUpdate' => Once'
<1> SUFFICES ASSUME loginFaults' = 0, ~lostUpdate' PROVE Once'
  OBVIOUS
<1>1. Once
  BY DEF CodesInv
<1> QED BY <1>1 DEF Once, Fresh

\* So does one that takes no list and no set-up under way from an account with a second factor.
LEMMA MfaUntouched ==
  ASSUME MfaHasCodes, UNCHANGED stored, creds' \subseteq creds,
         loginFaults' = 0 => \A p \in LoginProcs : loginPc[p] = "storeCodes" => loginPc'[p] = "storeCodes",
         loginFaults' = 0 => loginFaults = 0
  PROVE  MfaHasCodes'
BY DEF MfaHasCodes

\* Every step keeps the invariant of the codes.
LEMMA CodesStep == CodesInv /\ [LoginNext]_loginVars => CodesInv'
<1> SUFFICES ASSUME CodesInv, [LoginNext]_loginVars PROVE CodesInv'
  OBVIOUS
<1> USE DEF CodesInv
<1>1. Typed'
  BY TypedStep
<1> USE DEF Typed, LocalsTypeOK
<1>2. ASSUME NEW p \in LoginProcs,
             (\E a \in IPs : BeginLogin(p, a)) \/ PasswordWrong(p) \/ PasswordRight(p) \/ ListMFA(p)
               \/ BeginBackupCode(p) \/ UseBackupCode(p) \/ LoginFails(p)
      PROVE  CodesInv'
  <2>1. UNCHANGED <<stored, uses, setups, lostUpdate, creds>>
    BY <1>2 DEF BeginLogin, PasswordWrong, PasswordRight, ListMFA, BeginBackupCode, UseBackupCode,
                LoginFails, mfa
  <2>2. loginFaults' = loginFaults \/ loginFaults' # 0
    BY <1>2 DEF BeginLogin, PasswordWrong, PasswordRight, ListMFA, BeginBackupCode, UseBackupCode,
                LoginFails, FlagsTypeOK
  <2>3. \A q \in LoginProcs : loginPc'[q] = "storeCodes" => loginPc[q] = "storeCodes" /\ setup'[q] = setup[q]
    BY <1>2 DEF BeginLogin, PasswordWrong, PasswordRight, ListMFA, BeginBackupCode, UseBackupCode,
                LoginFails, LoginReturn, LoginGoto
  <2>4. loginFaults' = 0 => \A q \in LoginProcs : loginPc[q] = "storeCodes" => loginPc'[q] = "storeCodes"
    <3>1. CASE LoginFails(p)
      BY <3>1 DEF LoginFails, FlagsTypeOK
    <3>2. CASE ~LoginFails(p)
      BY <1>2, <3>2 DEF BeginLogin, PasswordWrong, PasswordRight, ListMFA, BeginBackupCode,
                        UseBackupCode, LoginReturn, LoginGoto
    <3> QED BY <3>1, <3>2
  <2>5. loginFaults' = 0 => loginFaults = 0
    BY <2>2, <1>2 DEF BeginLogin, PasswordWrong, PasswordRight, ListMFA, BeginBackupCode,
                      UseBackupCode, LoginFails, FlagsTypeOK
  <2>6. MfaHasCodes'
    BY <2>1, <2>4, <2>5, MfaUntouched
  <2> QED BY <1>1, <2>1, <2>2, <2>3, <2>6, CodesUntouched
<1>3. ASSUME NEW p \in LoginProcs, WriteCodes(p) PROVE CodesInv'
  <2>1. /\ loginPc[p] = "writeCodes" /\ LoginReturn(p) /\ UNCHANGED <<setups, creds>>
        /\ uses' = [uses EXCEPT ![list[p].setup][code[p]] = @ + 1]
    BY <1>3 DEF WriteCodes
  <2>2. /\ list[p].setup \in 1 .. setups /\ list[p].setup \in Setups
        /\ code[p] \in list[p].unused /\ code[p] \in CodeNames
    BY <2>1 DEF Stages, Lists, Setups, TablesTypeOK, LoginAssumption
  <2>3. \A q \in LoginProcs : loginPc[q] = "storeCodes" => loginPc'[q] = "storeCodes" /\ setup'[q] = setup[q]
    BY <2>1 DEF LoginReturn, LoginGoto
  <2>4. \A q \in LoginProcs : loginPc'[q] = "storeCodes" => loginPc[q] = "storeCodes" /\ setup'[q] = setup[q]
    BY <2>1 DEF LoginReturn, LoginGoto
  <2>5. MfaHasCodes'
    <3>1. CASE stored' = stored
      BY <3>1, <2>1, <2>3, <1>3, MfaUntouched DEF WriteCodes, FlagsTypeOK
    <3>2. CASE stored' = [list[p] EXCEPT !.unused = @ \ {code[p]}]
      BY <3>2, <2>2 DEF MfaHasCodes, Lists
    <3> QED BY <1>3, <3>1, <3>2 DEF WriteCodes
  <2>6. ASSUME loginFaults' = 0, ~lostUpdate' PROVE Once'
    <3>1. /\ loginFaults = 0 /\ ~lostUpdate /\ stored = list[p]
          /\ stored' = [stored EXCEPT !.unused = @ \ {code[p]}]
      <4>1. ~(loginFaults' = loginFaults + 1) /\ loginFaults = 0
        BY <1>3, <2>6 DEF WriteCodes, FlagsTypeOK
      <4>2. /\ stored' = [list[p] EXCEPT !.unused = @ \ {code[p]}]
            /\ lostUpdate' = (lostUpdate \/ stored # list[p])
        BY <1>3, <4>1 DEF WriteCodes
      <4>3. ~lostUpdate /\ stored = list[p]
        BY <2>6, <4>2, Zenon
      <4> QED BY <4>1, <4>2, <4>3
    <3>2. Once
      BY <3>1
    <3>3. /\ stored'.setup = stored.setup /\ stored'.unused = stored.unused \ {code[p]}
      BY <3>1 DEF TablesTypeOK, Lists
    <3>4. /\ uses[stored.setup][code[p]] = 0 /\ uses'[stored.setup][code[p]] = 1
          /\ \A s \in Setups, c \in CodeNames :
               s # stored.setup \/ c # code[p] => uses'[s][c] = uses[s][c]
      BY <2>1, <2>2, <3>1, <3>2 DEF Once, TablesTypeOK
    <3>5. \A s \in Setups, c \in CodeNames : uses'[s][c] <= 1
      BY <2>2, <3>1, <3>2, <3>4 DEF Once
    <3>6. \A c \in stored'.unused : uses'[stored'.setup][c] = 0
      BY <2>2, <3>1, <3>2, <3>3, <3>4 DEF Once, TablesTypeOK, Lists
    <3>7. \A s \in Setups : s # stored.setup /\ Fresh(s) => Fresh(s)'
      BY <3>4 DEF Fresh
    <3>8. \A s \in Setups : s > setups' => Fresh(s)'
      <4>1. \A s \in Setups : s > setups => s # stored.setup
        BY <2>2, <3>1 DEF Setups, TablesTypeOK
      <4> QED BY <2>1, <3>2, <3>7, <4>1 DEF Once
    <3>9. \A q \in LoginProcs : loginPc[q] = "storeCodes" => setup[q] \in Setups
      BY DEF Stages, Setups, TablesTypeOK, LoginAssumption
    <3> QED BY <2>4, <3>2, <3>3, <3>5, <3>6, <3>7, <3>8, <3>9 DEF Once
  <2> QED BY <1>1, <2>5, <2>6
<1>4. ASSUME NEW p \in LoginProcs, CreateMFACredential(p) PROVE CodesInv'
  <2>1. /\ setups' = setups + 1 /\ setup' = [setup EXCEPT ![p] = setups + 1]
        /\ loginPc[p] = "idle" /\ loginPc' = [loginPc EXCEPT ![p] = "storeCodes"]
        /\ UNCHANGED <<stored, uses, lostUpdate, loginFaults>>
    BY <1>4 DEF CreateMFACredential, LoginGoto
  <2>2. MfaHasCodes'
    BY <2>1 DEF MfaHasCodes
  <2>3. ASSUME loginFaults' = 0, ~lostUpdate' PROVE Once'
    <3>1. Once
      BY <2>1, <2>3
    <3>2. setups + 1 \in Setups
      BY <1>4 DEF CreateMFACredential, TablesTypeOK, Setups, LoginAssumption
    <3>3. Fresh(setups + 1) /\ stored.setup # setups + 1
      BY <3>1, <3>2 DEF Once, StoredFits, TablesTypeOK, Lists
    <3>4. \A q \in LoginProcs : loginPc[q] = "storeCodes" => setup[q] # setups + 1
      BY DEF Stages, TablesTypeOK
    <3>5. \A s \in Setups : Fresh(s)' <=> Fresh(s)
      BY <2>1 DEF Fresh
    <3>6. \A s \in Setups : s > setups' => Fresh(s)'
      BY <2>1, <3>1, <3>5 DEF Once, Setups, TablesTypeOK
    <3>7. \A q \in LoginProcs : loginPc'[q] = "storeCodes" =>
            \/ q = p /\ setup'[q] = setups + 1
            \/ q # p /\ loginPc[q] = "storeCodes" /\ setup'[q] = setup[q]
      BY <2>1
    <3>8. \A q \in LoginProcs : loginPc'[q] = "storeCodes" => (Fresh(setup[q]) /\ stored.setup # setup[q])'
      BY <2>1, <3>1, <3>3, <3>7 DEF Once, Fresh
    <3>9. \A q, r \in LoginProcs : loginPc'[q] = "storeCodes" /\ r # q /\ loginPc'[r] = "storeCodes"
            => setup'[r] # setup'[q]
      BY <3>1, <3>4, <3>7 DEF Once
    <3> QED BY <2>1, <3>1, <3>6, <3>8, <3>9 DEF Once, Fresh
  <2> QED BY <1>1, <2>2, <2>3
<1>5. ASSUME NEW p \in LoginProcs, StoreCodes(p) PROVE CodesInv'
  <2>1. /\ loginPc[p] = "storeCodes" /\ LoginReturn(p)
        /\ stored' = [setup |-> setup[p], unused |-> CodeNames]
        /\ UNCHANGED <<setups, uses, lostUpdate, loginFaults>>
    BY <1>5 DEF StoreCodes
  <2>2. setup[p] \in Setups
    BY <2>1 DEF Stages, Setups, TablesTypeOK, LoginAssumption
  <2>3. MfaHasCodes'
    BY <2>1, <2>2 DEF MfaHasCodes, Setups
  <2>4. ASSUME loginFaults' = 0, ~lostUpdate' PROVE Once'
    <3>1. Once
      BY <2>1, <2>4
    <3>2. \A q \in LoginProcs : loginPc'[q] = "storeCodes" =>
            q # p /\ loginPc[q] = "storeCodes" /\ setup'[q] = setup[q]
      BY <2>1 DEF LoginReturn, LoginGoto
    <3> QED BY <2>1, <2>2, <3>1, <3>2 DEF Once, Fresh
  <2> QED BY <1>1, <2>3, <2>4
<1>6. ASSUME NEW c \in Setups, RemoveCredential(c) PROVE CodesInv'
  <2>1. UNCHANGED <<stored, uses, setups, lostUpdate, loginFaults, loginPc, setup>> /\ creds' \subseteq creds
    BY <1>6 DEF RemoveCredential, loginLocals
  <2> QED BY <1>1, <2>1, CodesUntouched, MfaUntouched
<1>7. CASE Restart
  <2>1. UNCHANGED <<stored, uses, setups, lostUpdate, creds>> /\ loginFaults' # 0
    BY <1>7 DEF Restart, mfa, FlagsTypeOK
  <2> QED BY <1>1, <2>1 DEF MfaHasCodes
<1>8. CASE RunCleanup \/ LoginTick \/ UNCHANGED loginVars
  <2>1. UNCHANGED <<stored, uses, setups, lostUpdate, loginFaults, loginPc, setup, creds>>
    BY <1>8 DEF RunCleanup, LoginTick, loginVars, mfa, loginLocals
  <2> QED BY <1>1, <2>1, CodesUntouched, MfaUntouched
<1>9. ASSUME NEW p \in LoginProcs, Handle(p) PROVE CodesInv'
  BY <1>2, <1>3, <1>4, <1>5, <1>9 DEF Handle
<1> QED BY <1>6, <1>7, <1>8, <1>9 DEF LoginNext

\* No code exists at the start.
LEMMA CodesInit == LoginInit => CodesInv
<1> SUFFICES ASSUME LoginInit PROVE CodesInv
  OBVIOUS
<1>1. Typed
  BY TypedInit
<1>2. Once
  BY DEF LoginInit, Once, Fresh, NoCodes
<1>3. MfaHasCodes
  BY DEF LoginInit, MfaHasCodes
<1> QED BY <1>1, <1>2, <1>3 DEF CodesInv

\* As long as no list was written over one that had not been read, and no write failed, a backup
\* code signs in once: UseBackupCodeForLogin removes it from the list it writes back.
THEOREM CodesSignInOnce == LoginSpec => []BackupCodeOnce
<1>1. CodesInv => BackupCodeOnce
  BY DEF CodesInv, Once, BackupCodeOnce
<1> QED BY <1>1, CodesInit, CodesStep, PTL DEF LoginSpec

\* ConfirmTOTPSetup leaves no account with a second factor and without backup codes, unless a
\* statement fails or the server dies between its two statements.
THEOREM SetupStoresCodes == LoginSpec => []MfaHasCodes
<1>1. CodesInv => MfaHasCodes
  BY DEF CodesInv
<1> QED BY <1>1, CodesInit, CodesStep, PTL DEF LoginSpec
----------------------------------------------------------------------------
(* Locks *)

\* A lock stands for enough failures and ends no later than one that began now would.
LockFits == \A a \in IPs : lockedUntil[a] # Never =>
  /\ attempts[a] >= MaxAttemptsShort
  /\ lockedUntil[a] <= time + LockoutDurationLong
  /\ attempts[a] < MaxAttemptsLong => lockedUntil[a] <= time + LockoutDurationShort

\* What a failure makes of its address, in plain arithmetic.
LEMMA FailureEffect ==
  ASSUME LimiterTypeOK, NEW a \in IPs, RecordFailure(a)
  PROVE  \E n \in Nat : \E t \in Nat :
           /\ n = IF Expired(a) THEN 1 ELSE attempts[a] + 1
           /\ attempts' = [attempts EXCEPT ![a] = n]
           /\ lockedUntil' = [lockedUntil EXCEPT ![a] = t]
           /\ n >= MaxAttemptsLong => t = time + LockoutDurationLong
           /\ n >= MaxAttemptsShort /\ n < MaxAttemptsLong => t = time + LockoutDurationShort
           /\ n < MaxAttemptsShort => t = IF Expired(a) THEN Never ELSE lockedUntil[a]
<1> USE DEF LimiterTypeOK
<1> DEFINE n == IF Expired(a) THEN 1 ELSE attempts[a] + 1
           t == CASE n >= MaxAttemptsLong -> time + LockoutDurationLong
                  [] n >= MaxAttemptsShort /\ n < MaxAttemptsLong -> time + LockoutDurationShort
                  [] n < MaxAttemptsShort -> IF Expired(a) THEN Never ELSE lockedUntil[a]
<1>1. attempts' = [attempts EXCEPT ![a] = n] /\ lockedUntil' = [lockedUntil EXCEPT ![a] = t]
  BY DEF RecordFailure
<1>2. n \in Nat /\ n = IF Expired(a) THEN 1 ELSE attempts[a] + 1
  OBVIOUS
<1>3. (IF Expired(a) THEN Never ELSE lockedUntil[a]) \in Nat
  BY DEF Never
<1> HIDE DEF n
<1>4. /\ n >= MaxAttemptsLong => t = time + LockoutDurationLong
      /\ n >= MaxAttemptsShort /\ n < MaxAttemptsLong => t = time + LockoutDurationShort
      /\ n < MaxAttemptsShort => t = IF Expired(a) THEN Never ELSE lockedUntil[a]
  BY <1>2 DEF RateLimitAssumption
<1>5. t \in Nat
  BY <1>2, <1>3 DEF RateLimitAssumption
<1> HIDE DEF t
<1> QED BY <1>1, <1>2, <1>4, <1>5

\* A failure at one address moves its lock no nearer, unless the lock was over.
LEMMA FailureLocks ==
  ASSUME LimiterTypeOK, LockFits, NEW a \in IPs, RecordFailure(a), UNCHANGED time
  PROVE  LockFits' /\ \A b \in IPs : IsBlocked(b) => lockedUntil'[b] >= lockedUntil[b]
<1> USE DEF LimiterTypeOK
<1>1. PICK n \in Nat, t \in Nat :
           /\ n = IF Expired(a) THEN 1 ELSE attempts[a] + 1
           /\ attempts' = [attempts EXCEPT ![a] = n]
           /\ lockedUntil' = [lockedUntil EXCEPT ![a] = t]
           /\ n >= MaxAttemptsLong => t = time + LockoutDurationLong
           /\ n >= MaxAttemptsShort /\ n < MaxAttemptsLong => t = time + LockoutDurationShort
           /\ n < MaxAttemptsShort => t = IF Expired(a) THEN Never ELSE lockedUntil[a]
  BY FailureEffect
<1>2. /\ attempts'[a] = n /\ lockedUntil'[a] = t
      /\ \A b \in IPs : b # a => attempts'[b] = attempts[b] /\ lockedUntil'[b] = lockedUntil[b]
  BY <1>1
<1>3. t # Never => /\ n >= MaxAttemptsShort
                   /\ t <= time + LockoutDurationLong
                   /\ n < MaxAttemptsLong => t <= time + LockoutDurationShort
  BY <1>1 DEF LockFits, Never, RateLimitAssumption
<1>4. LockFits'
  BY <1>2, <1>3 DEF LockFits
<1>5. IsBlocked(a) => t >= lockedUntil[a]
  BY <1>1 DEF IsBlocked, Expired, LockFits, Never, RateLimitAssumption
<1> QED BY <1>2, <1>4, <1>5

\* Locks fit their counts in every step, and a running one is only lifted by a right password or
\* a restart.
LEMMA LocksStep ==
  ASSUME Typed, LockFits, [LoginNext]_loginVars
  PROVE  LockFits' /\ \A a \in IPs : IsBlocked(a) =>
           \/ lockedUntil'[a] >= lockedUntil[a]
           \/ \E p \in LoginProcs : ip[p] = a /\ Succeeds(p)
           \/ loginFaults' # loginFaults
<1> DEFINE Kept == \A a \in IPs : IsBlocked(a) =>
             \/ lockedUntil'[a] >= lockedUntil[a]
             \/ \E p \in LoginProcs : ip[p] = a /\ Succeeds(p)
             \/ loginFaults' # loginFaults
<1> SUFFICES LockFits' /\ Kept
  OBVIOUS
<1> USE DEF Typed, LimiterTypeOK
<1>1. CASE UNCHANGED <<attempts, lockedUntil>> /\ time' \in Nat /\ time' >= time
  BY <1>1 DEF LockFits, RateLimitAssumption
<1>2. ASSUME NEW p \in LoginProcs, PasswordWrong(p) PROVE LockFits' /\ Kept
  BY <1>2, FailureLocks DEF PasswordWrong, Stages
<1>3. ASSUME NEW p \in LoginProcs, PasswordRight(p) PROVE LockFits' /\ Kept
  <2>1. /\ ip[p] \in IPs /\ Succeeds(p) /\ time' = time
        /\ attempts' = [attempts EXCEPT ![ip[p]] = 0]
        /\ lockedUntil' = [lockedUntil EXCEPT ![ip[p]] = Never]
    BY <1>3 DEF PasswordRight, Stages, Succeeds, LoginGoto, Reset, LocalsTypeOK
  <2> QED BY <2>1 DEF LockFits, Never
<1>4. CASE RunCleanup
  <2>1. /\ time' = time
        /\ \A a \in IPs : Stale(a) => lockedUntil'[a] = Never
        /\ \A a \in IPs : ~Stale(a) =>
             attempts'[a] = attempts[a] /\ lockedUntil'[a] = lockedUntil[a]
    BY <1>4 DEF RunCleanup, Cleanup
  <2>2. \A a \in IPs : IsBlocked(a) => ~Stale(a)
    BY DEF IsBlocked, Stale
  <2> QED BY <2>1, <2>2 DEF LockFits, Never
<1>5. CASE Restart
  <2>1. loginFaults' # loginFaults
    BY <1>5 DEF Restart, FlagsTypeOK
  <2>2. LockFits'
    BY <1>5 DEF Restart, LockFits
  <2> QED BY <2>1, <2>2
<1>6. ASSUME NEW p \in LoginProcs, Handle(p), ~PasswordWrong(p), ~PasswordRight(p)
      PROVE  UNCHANGED <<attempts, lockedUntil, time>>
  BY <1>6 DEF Handle, BeginLogin, ListMFA, BeginBackupCode, UseBackupCode, WriteCodes,
              CreateMFACredential, StoreCodes, LoginFails, limits, limiter
<1>7. ASSUME NEW c \in Setups, RemoveCredential(c) PROVE UNCHANGED <<attempts, lockedUntil, time>>
  BY <1>7 DEF RemoveCredential, limits, limiter
<1>8. CASE LoginTick
  BY <1>1, <1>8 DEF LoginTick, limits, limiter
<1>9. CASE UNCHANGED loginVars
  BY <1>1, <1>9 DEF loginVars, limits, limiter
<1>10. (UNCHANGED <<attempts, lockedUntil, time>>) => LockFits' /\ Kept
  BY <1>1
<1> HIDE DEF Kept
<1>11. ASSUME NEW p \in LoginProcs, Handle(p) PROVE LockFits' /\ Kept
  BY <1>2, <1>3, <1>6, <1>10, <1>11
<1>12. ASSUME NEW c \in Setups, RemoveCredential(c) PROVE LockFits' /\ Kept
  BY <1>7, <1>10, <1>12
<1> QED BY <1>4, <1>5, <1>8, <1>9, <1>11, <1>12 DEF LoginNext

\* RecordFailure never shortens a running lock and the cleanup leaves it alone: it is lifted by a
\* password already on its way when it began, or by a restart.
THEOREM LocksAreKept == LoginSpec => LockHolds
<1>1. LoginInit => Typed /\ LockFits
  <2>1. LoginInit => LockFits
    BY DEF LoginInit, New, LockFits
  <2> QED BY <2>1, TypedInit
<1>2. Typed /\ LockFits /\ [LoginNext]_loginVars => Typed' /\ LockFits'
  BY TypedStep, LocksStep
<1>3. Typed /\ LockFits /\ [LoginNext]_loginVars =>
        [\A a \in IPs : IsBlocked(a) =>
           \/ lockedUntil'[a] >= lockedUntil[a]
           \/ \E p \in LoginProcs : ip[p] = a /\ Succeeds(p)
           \/ loginFaults' # loginFaults]_loginVars
  BY LocksStep
<1> QED BY <1>1, <1>2, <1>3, PTL DEF LoginSpec, LockHolds
----------------------------------------------------------------------------
(* What a lock bounds *)

\* Requests that have passed IsBlocked and wait for the hash comparison.
InFlight(a) == {p \in LoginProcs : loginPc[p] = "password" /\ ip[p] = a}

\* A count at or above the short threshold belongs to a lock, and while that runs only the
\* requests in flight can raise it.
Crowd(a) ==
  \/ attempts[a] < MaxAttemptsShort
  \/ /\ lockedUntil[a] # Never
     /\ attempts[a] < MaxAttemptsShort + Cardinality(LoginProcs)
     /\ IsBlocked(a) =>
          attempts[a] + Cardinality(InFlight(a)) < MaxAttemptsShort + Cardinality(LoginProcs)

\* Goroutines in flight are goroutines, and one that is not leaves room.
LEMMA InFlightCounts ==
  ASSUME IsFiniteSet(LoginProcs), NEW a \in IPs
  PROVE  /\ Cardinality(LoginProcs) \in Nat /\ Cardinality(InFlight(a)) \in Nat
         /\ Cardinality(InFlight(a)') \in Nat
         /\ \A p \in LoginProcs : p \notin InFlight(a)' => Cardinality(InFlight(a)') < Cardinality(LoginProcs)
         /\ InFlight(a)' \subseteq InFlight(a) =>
              Cardinality(InFlight(a)') <= Cardinality(InFlight(a))
         /\ \A p \in InFlight(a) : InFlight(a)' \subseteq InFlight(a) \ {p} =>
              Cardinality(InFlight(a)') < Cardinality(InFlight(a))
<1>1. InFlight(a) \subseteq LoginProcs /\ InFlight(a)' \subseteq LoginProcs
  BY DEF InFlight
<1>2. IsFiniteSet(InFlight(a)) /\ IsFiniteSet(InFlight(a)')
  BY <1>1, FS_Subset
<1>3. /\ Cardinality(LoginProcs) \in Nat /\ Cardinality(InFlight(a)) \in Nat
      /\ Cardinality(InFlight(a)') \in Nat
  BY <1>2, FS_CardinalityType
<1>4. ASSUME NEW p \in LoginProcs, p \notin InFlight(a)'
      PROVE  Cardinality(InFlight(a)') < Cardinality(LoginProcs)
  <2>1. IsFiniteSet(LoginProcs \ {p}) /\ Cardinality(LoginProcs \ {p}) = Cardinality(LoginProcs) - 1
    BY FS_RemoveElement
  <2>2. Cardinality(InFlight(a)') <= Cardinality(LoginProcs \ {p})
    BY <1>1, <1>4, <2>1, FS_Subset
  <2> QED BY <1>3, <2>1, <2>2
<1>5. ASSUME InFlight(a)' \subseteq InFlight(a)
      PROVE  Cardinality(InFlight(a)') <= Cardinality(InFlight(a))
  BY <1>2, <1>5, FS_Subset
<1>6. ASSUME NEW p \in InFlight(a), InFlight(a)' \subseteq InFlight(a) \ {p}
      PROVE  Cardinality(InFlight(a)') < Cardinality(InFlight(a))
  <2>1. /\ IsFiniteSet(InFlight(a) \ {p})
        /\ Cardinality(InFlight(a) \ {p}) = Cardinality(InFlight(a)) - 1
    BY <1>2, FS_RemoveElement
  <2>2. Cardinality(InFlight(a)') <= Cardinality(InFlight(a) \ {p})
    BY <1>6, <2>1, FS_Subset
  <2> QED BY <1>3, <2>1, <2>2
<1> QED BY <1>3, <1>4, <1>5, <1>6

\* An address whose entry a step leaves alone, or deletes, stays within its bound unless a request
\* sets out for it.
LEMMA CrowdKept ==
  ASSUME IsFiniteSet(LoginProcs), LimiterTypeOK, time' \in Nat, time' >= time, NEW a \in IPs, Crowd(a),
         attempts'[a] = 0 \/ (attempts'[a] = attempts[a] /\ lockedUntil'[a] = lockedUntil[a]),
         InFlight(a)' \subseteq InFlight(a) \/ ~IsBlocked(a)
  PROVE  Crowd(a)'
<1>1. CASE attempts'[a] = 0
  BY <1>1 DEF Crowd, RateLimitAssumption
<1>2. CASE attempts'[a] = attempts[a] /\ lockedUntil'[a] = lockedUntil[a]
  <2>1. IsBlocked(a)' => IsBlocked(a)
    BY <1>2 DEF IsBlocked, LimiterTypeOK
  <2>2. IsBlocked(a)' => Cardinality(InFlight(a)') <= Cardinality(InFlight(a))
    BY <2>1, InFlightCounts
  <2>3. /\ Cardinality(LoginProcs) \in Nat /\ Cardinality(InFlight(a)) \in Nat
        /\ Cardinality(InFlight(a)') \in Nat
    BY InFlightCounts
  <2>4. CASE attempts[a] < MaxAttemptsShort
    BY <1>2, <2>4 DEF Crowd
  <2>5. CASE ~(attempts[a] < MaxAttemptsShort)
    <3>1. /\ lockedUntil'[a] # Never
          /\ attempts'[a] < MaxAttemptsShort + Cardinality(LoginProcs)
          /\ IsBlocked(a) =>
               attempts[a] + Cardinality(InFlight(a)) < MaxAttemptsShort + Cardinality(LoginProcs)
      BY <1>2, <2>5 DEF Crowd
    <3>2. IsBlocked(a)' =>
            attempts'[a] + Cardinality(InFlight(a)') < MaxAttemptsShort + Cardinality(LoginProcs)
      BY <1>2, <2>1, <2>2, <2>3, <3>1 DEF LimiterTypeOK, RateLimitAssumption
    <3> QED BY <3>1, <3>2 DEF Crowd
  <2> QED BY <2>4, <2>5
<1> QED BY <1>1, <1>2

\* A wrong password counts for a request that is no longer in flight.
LEMMA CrowdFailure ==
  ASSUME IsFiniteSet(LoginProcs), LimiterTypeOK, LocalsTypeOK, time' = time, NEW p \in LoginProcs,
         NEW a \in IPs, ip[p] = a, loginPc[p] = "password", LoginReturn(p), RecordFailure(a),
         time # lockedUntil[a], Crowd(a)
  PROVE  Crowd(a)'
<1> USE DEF LimiterTypeOK
<1>1. PICK n \in Nat, t \in Nat :
           /\ n = IF Expired(a) THEN 1 ELSE attempts[a] + 1
           /\ attempts' = [attempts EXCEPT ![a] = n]
           /\ lockedUntil' = [lockedUntil EXCEPT ![a] = t]
           /\ n >= MaxAttemptsLong => t = time + LockoutDurationLong
           /\ n >= MaxAttemptsShort /\ n < MaxAttemptsLong => t = time + LockoutDurationShort
           /\ n < MaxAttemptsShort => t = IF Expired(a) THEN Never ELSE lockedUntil[a]
  BY FailureEffect
<1>2. attempts'[a] = n /\ lockedUntil'[a] = t
  BY <1>1
<1>3. p \in InFlight(a) /\ p \notin InFlight(a)' /\ InFlight(a)' \subseteq InFlight(a) \ {p}
  BY DEF InFlight, LoginReturn, LoginGoto, LocalsTypeOK
<1>4. /\ Cardinality(LoginProcs) \in Nat /\ Cardinality(InFlight(a)) \in Nat
      /\ Cardinality(InFlight(a)') \in Nat
      /\ Cardinality(InFlight(a)') < Cardinality(LoginProcs)
      /\ Cardinality(InFlight(a)') < Cardinality(InFlight(a))
  BY <1>3, InFlightCounts
<1>5. n >= MaxAttemptsShort => t # Never
  BY <1>1 DEF Never, RateLimitAssumption
<1>6. n >= MaxAttemptsShort =>
        n + Cardinality(InFlight(a)') < MaxAttemptsShort + Cardinality(LoginProcs)
  <2>1. CASE n <= MaxAttemptsShort
    BY <2>1, <1>4 DEF RateLimitAssumption
  <2>2. CASE n > MaxAttemptsShort
    <3>1. ~Expired(a) /\ n = attempts[a] + 1 /\ attempts[a] >= MaxAttemptsShort
      BY <1>1, <2>2 DEF RateLimitAssumption
    <3>2. IsBlocked(a) /\
          attempts[a] + Cardinality(InFlight(a)) < MaxAttemptsShort + Cardinality(LoginProcs)
      BY <3>1 DEF Crowd, Expired, IsBlocked, RateLimitAssumption
    <3> QED BY <1>4, <3>1, <3>2 DEF RateLimitAssumption
  <2> QED BY <2>1, <2>2 DEF RateLimitAssumption
<1> QED BY <1>2, <1>4, <1>5, <1>6 DEF Crowd, RateLimitAssumption

CrowdInv == ~onTheDot => \A a \in IPs : Crowd(a)

\* Every step keeps each address within its bound.
LEMMA CrowdStep ==
  ASSUME IsFiniteSet(LoginProcs), Typed, CrowdInv, [LoginNext]_loginVars
  PROVE  CrowdInv'
<1> USE DEF Typed
<1> SUFFICES ASSUME ~onTheDot', NEW a \in IPs PROVE Crowd(a)'
  BY DEF CrowdInv
<1>1. ~onTheDot /\ time' \in Nat /\ time' >= time
  <2>1. ~onTheDot
    BY DEF LoginNext, Handle, BeginLogin, PasswordWrong, PasswordRight, ListMFA, BeginBackupCode,
           UseBackupCode, WriteCodes, CreateMFACredential, StoreCodes, LoginFails,
           RemoveCredential, RunCleanup, Restart, LoginTick, loginVars, limits, limiter
  <2>2. time' = time \/ time' = time + 1
    BY DEF LoginNext, Handle, BeginLogin, PasswordWrong, PasswordRight, ListMFA, BeginBackupCode,
           UseBackupCode, WriteCodes, CreateMFACredential, StoreCodes, LoginFails,
           RemoveCredential, RunCleanup, Restart, LoginTick, loginVars, limits, limiter
  <2> QED BY <2>1, <2>2 DEF LimiterTypeOK
<1>2. Crowd(a)
  BY <1>1 DEF CrowdInv
<1>3. ASSUME NEW p \in LoginProcs, NEW b \in IPs, BeginLogin(p, b) PROVE Crowd(a)'
  <2>1. attempts' = attempts /\ lockedUntil' = lockedUntil
    BY <1>3 DEF BeginLogin, limits, limiter
  <2>2. InFlight(a)' \subseteq InFlight(a) \/ ~IsBlocked(a)
    BY <1>3 DEF BeginLogin, LoginGoto, InFlight, LocalsTypeOK
  <2> QED BY <1>1, <1>2, <2>1, <2>2, CrowdKept
<1>4. ASSUME NEW p \in LoginProcs, PasswordWrong(p) PROVE Crowd(a)'
  <2>1. /\ loginPc[p] = "password" /\ ip[p] \in IPs /\ LoginReturn(p) /\ RecordFailure(ip[p]) /\ time' = time
        /\ time # lockedUntil[ip[p]]
    <3>1. onTheDot' = (onTheDot \/ time = lockedUntil[ip[p]])
      BY <1>4 DEF PasswordWrong
    <3>2. time # lockedUntil[ip[p]]
      BY <3>1, Zenon
    <3> QED BY <1>4, <3>2 DEF PasswordWrong, Stages
  <2>2. CASE ip[p] = a
    BY <1>2, <2>1, <2>2, CrowdFailure
  <2>3. CASE ip[p] # a
    <3>1. attempts'[a] = attempts[a] /\ lockedUntil'[a] = lockedUntil[a]
      BY <2>1, <2>3 DEF RecordFailure, LimiterTypeOK
    <3>2. InFlight(a)' \subseteq InFlight(a)
      BY <2>1 DEF InFlight, LoginReturn, LoginGoto, LocalsTypeOK
    <3> QED BY <1>1, <1>2, <3>1, <3>2, CrowdKept
  <2> QED BY <2>2, <2>3
<1>5. ASSUME NEW p \in LoginProcs, PasswordRight(p) PROVE Crowd(a)'
  <2>1. attempts'[a] = 0 \/ (attempts'[a] = attempts[a] /\ lockedUntil'[a] = lockedUntil[a])
    BY <1>5 DEF PasswordRight, Reset, LimiterTypeOK
  <2>2. InFlight(a)' \subseteq InFlight(a)
    BY <1>5 DEF PasswordRight, InFlight, LoginGoto, LocalsTypeOK
  <2> QED BY <1>1, <1>2, <2>1, <2>2, CrowdKept
<1>6. ASSUME NEW p \in LoginProcs, Handle(p), ~PasswordWrong(p), ~PasswordRight(p),
             ~\E b \in IPs : BeginLogin(p, b)
      PROVE  Crowd(a)'
  <2>1. attempts' = attempts /\ lockedUntil' = lockedUntil
    BY <1>6 DEF Handle, ListMFA, BeginBackupCode, UseBackupCode, WriteCodes, CreateMFACredential,
                StoreCodes, LoginFails, limits, limiter
  <2>2. \A q \in LoginProcs : loginPc'[q] = "password" => loginPc[q] = "password" /\ ip'[q] = ip[q]
    BY <1>6 DEF Handle, ListMFA, BeginBackupCode, UseBackupCode, WriteCodes, CreateMFACredential,
                StoreCodes, LoginFails, LoginReturn, LoginGoto, LocalsTypeOK
  <2>3. InFlight(a)' \subseteq InFlight(a)
    BY <2>2 DEF InFlight
  <2> QED BY <1>1, <1>2, <2>1, <2>3, CrowdKept
<1>7. ASSUME NEW c \in Setups, RemoveCredential(c) PROVE Crowd(a)'
  <2>1. UNCHANGED <<attempts, lockedUntil, loginPc, ip>>
    BY <1>7 DEF RemoveCredential, limits, limiter, loginLocals
  <2> QED BY <1>1, <1>2, <2>1, CrowdKept DEF InFlight
<1>8. CASE RunCleanup
  <2>1. attempts'[a] = 0 \/ (attempts'[a] = attempts[a] /\ lockedUntil'[a] = lockedUntil[a])
    BY <1>8 DEF RunCleanup, Cleanup
  <2>2. InFlight(a)' \subseteq InFlight(a)
    BY <1>8 DEF RunCleanup, loginLocals, InFlight
  <2> QED BY <1>1, <1>2, <2>1, <2>2, CrowdKept
<1>9. CASE Restart
  <2>1. attempts'[a] = 0
    BY <1>9 DEF Restart
  <2>2. InFlight(a)' \subseteq InFlight(a)
    BY <1>9 DEF Restart, InFlight
  <2> QED BY <1>1, <1>2, <2>1, <2>2, CrowdKept
<1>10. CASE LoginTick \/ UNCHANGED loginVars
  <2>1. UNCHANGED <<attempts, lockedUntil, loginPc, ip>>
    BY <1>10 DEF LoginTick, loginVars, limits, limiter, loginLocals
  <2> QED BY <1>1, <1>2, <2>1, CrowdKept DEF InFlight
<1>11. ASSUME NEW p \in LoginProcs, Handle(p) PROVE Crowd(a)'
  BY <1>3, <1>4, <1>5, <1>6, <1>11
<1> QED BY <1>7, <1>8, <1>9, <1>10, <1>11 DEF LoginNext

\* A lock stops the guessing: with any number of handlers, an address gets past the short
\* threshold by fewer failures than there are handlers, those of requests that had passed
\* IsBlocked together.
THEOREM LocksBoundGuesses ==
  ASSUME IsFiniteSet(LoginProcs)
  PROVE  LoginSpec => []LockBoundsGuesses
<1>1. LoginInit => Typed /\ CrowdInv
  <2>1. LoginInit => CrowdInv
    BY DEF LoginInit, New, CrowdInv, Crowd, RateLimitAssumption
  <2> QED BY <2>1, TypedInit
<1>2. Typed /\ CrowdInv /\ [LoginNext]_loginVars => Typed' /\ CrowdInv'
  BY TypedStep, CrowdStep
<1>3. Typed /\ CrowdInv => LockBoundsGuesses
  <2> SUFFICES ASSUME Typed, CrowdInv, ~onTheDot, NEW a \in IPs
               PROVE  attempts[a] < MaxAttemptsShort + Cardinality(LoginProcs)
    BY DEF LockBoundsGuesses
  <2>1. Crowd(a) /\ Cardinality(LoginProcs) \in Nat /\ attempts[a] \in Nat
    BY FS_CardinalityType DEF CrowdInv, Typed, LimiterTypeOK
  <2> QED BY <2>1 DEF Crowd, RateLimitAssumption
<1> QED BY <1>1, <1>2, <1>3, PTL DEF LoginSpec
=============================================================================
