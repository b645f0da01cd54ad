------------------------------- MODULE Login -------------------------------
(***************************************************************************)
(* Signing in to one account: password with rate limit, then TOTP or a     *)
(* backup code when the account has MFA, and the set-up and removal of MFA *)
(* (internal/auth/service Login, internal/mfa, internal/handler/mfa.go).   *)
(*                                                                         *)
(* Each action is one SQL statement or one call of the limiter with the    *)
(* local code that follows it.  backup_codes is one JSON column: it is     *)
(* read, changed and written back as a whole.  The stored sessions are     *)
(* module Sessions; here a sign-in is the step that goes on to insert one. *)
(* TOTP codes and passwords are right or wrong by choice.                  *)
(***************************************************************************)
EXTENDS RateLimit, FiniteSets

CONSTANTS
  LoginProcs,     \* handler goroutines that may run at the same time
  CodeNames,      \* the codes of one list (BackupCodeCount of them)
  NoEntry,
  MaxSetups,      \* bound on TOTP set-ups
  MaxUses,        \* bound on the sign-ins one code may pay for
  MaxLoginTime,   \* bound on the clock
  MaxLoginFaults  \* bound on failed statements and restarts

ASSUME LoginAssumption ==
  /\ NoEntry \notin LoginProcs \cup IPs \cup CodeNames
  /\ MaxSetups \in Nat /\ MaxUses \in Nat /\ MaxLoginTime \in Nat /\ MaxLoginFaults \in Nat

VARIABLES
  creds,        \* table mfa_credentials: the set-ups whose row is active
  setups,       \* set-ups begun so far: their ids are 1 .. setups
  stored,       \* users.backup_codes: the list's set-up and its unused codes
  uses,         \* history: sign-ins paid for by each code of each set-up
  lostUpdate,   \* history: a list was written back over one it had not read
  onTheDot,     \* history: a failure came at the very instant a lock ended
  challenged,   \* an mfa_session_token has been handed out
  loginPc, ip,  \* a handler goroutine: where it is, its caller's address,
  setup,        \*   the set-up it stores,
  list, code,   \*   the list it read and the code it accepted
  loginFaults

mfa == <<creds, setups, stored, uses, lostUpdate>>
limits == <<limiter, onTheDot>>
loginLocals == <<loginPc, ip, setup, list, code>>
loginVars == <<time, limits, mfa, challenged, loginLocals, loginFaults>>

----------------------------------------------------------------------------

Setups == 1 .. MaxSetups
Lists == [setup : 0 .. MaxSetups, unused : SUBSET CodeNames]

\* backup_codes is NULL.
NoCodes == [setup |-> 0, unused |-> {}]

LoginLabels == {"idle", "password", "listMFA", "readCodes", "writeCodes", "storeCodes"}

LoginTypeOK ==
  /\ LimiterTypeOK
  /\ creds \subseteq Setups
  /\ setups \in 0 .. MaxSetups
  /\ stored \in Lists
  /\ uses \in [Setups -> [CodeNames -> Nat]]
  /\ lostUpdate \in BOOLEAN /\ onTheDot \in BOOLEAN
  /\ challenged \in BOOLEAN
  /\ loginPc \in [LoginProcs -> LoginLabels]
  /\ ip \in [LoginProcs -> IPs \cup {NoEntry}]
  /\ setup \in [LoginProcs -> 0 .. MaxSetups]
  /\ list \in [LoginProcs -> Lists]
  /\ code \in [LoginProcs -> CodeNames \cup {NoEntry}]
  /\ loginFaults \in Nat

----------------------------------------------------------------------------
(* Steps of a handler *)

LoginGoto(p, label) == loginPc' = [loginPc EXCEPT ![p] = label]

LoginReturn(p) ==
  /\ LoginGoto(p, "idle")
  /\ ip' = [ip EXCEPT ![p] = NoEntry]
  /\ setup' = [setup EXCEPT ![p] = 0]
  /\ list' = [list EXCEPT ![p] = NoCodes]
  /\ code' = [code EXCEPT ![p] = NoEntry]

\* Login: the limiter is asked first ...
BeginLogin(p, a) ==
  /\ loginPc[p] = "idle" /\ ~IsBlocked(a)
  /\ LoginGoto(p, "password")
  /\ ip' = [ip EXCEPT ![p] = a]
  /\ UNCHANGED <<time, limits, mfa, challenged, setup, list, code, loginFaults>>

\* ... and told after the hash comparison, which takes its time: an unknown
\* address, an inactive account and a wrong password count alike.
PasswordWrong(p) ==
  /\ loginPc[p] = "password"
  /\ RecordFailure(ip[p])
  /\ onTheDot' = (onTheDot \/ time = lockedUntil[ip[p]])
  /\ LoginReturn(p)
  /\ UNCHANGED <<time, mfa, challenged, loginFaults>>

PasswordRight(p) ==
  /\ loginPc[p] = "password"
  /\ Reset(ip[p])
  /\ LoginGoto(p, "listMFA")
  /\ UNCHANGED <<time, onTheDot, mfa, challenged, ip, setup, list, code, loginFaults>>

\* Active credentials ask for the second step; without any the session is
\* created at once.
ListMFA(p) ==
  /\ loginPc[p] = "listMFA"
  /\ challenged' = (challenged \/ creds # {})
  /\ LoginReturn(p)
  /\ UNCHANGED <<time, limits, mfa, loginFaults>>

\* POST /auth/mfa/verify with a backup code: the user row is read, ...
BeginBackupCode(p) ==
  /\ loginPc[p] = "idle" /\ challenged
  /\ LoginGoto(p, "readCodes")
  /\ UNCHANGED <<time, limits, mfa, challenged, ip, setup, list, code, loginFaults>>

\* ... UseBackupCode marks the code in the copy, a code that is used or
\* unknown being an error, ...
UseBackupCode_UsedToo(p) ==
  /\ loginPc[p] = "readCodes"
  /\ \E c \in CodeNames :
       /\ stored.setup # 0 /\ uses[stored.setup][c] < MaxUses
       /\ list' = [list EXCEPT ![p] = stored]
       /\ code' = [code EXCEPT ![p] = c]
       /\ LoginGoto(p, "writeCodes")
       /\ UNCHANGED <<ip, setup>>
  /\ UNCHANGED <<time, limits, mfa, challenged, loginFaults>>
UseBackupCode(p) ==
  /\ loginPc[p] = "readCodes"
  /\ \/ \E c \in stored.unused :
          /\ uses[stored.setup][c] < MaxUses
          /\ list' = [list EXCEPT ![p] = stored]
          /\ code' = [code EXCEPT ![p] = c]
          /\ LoginGoto(p, "writeCodes")
          /\ UNCHANGED <<ip, setup>>
     \/ LoginReturn(p)
  /\ UNCHANGED <<time, limits, mfa, challenged, loginFaults>>

\* ... and the copy is written back.  The error of the write is dropped: the
\* sign-in goes on.
WriteCodes(p) ==
  /\ loginPc[p] = "writeCodes"
  /\ uses' = [uses EXCEPT ![list[p].setup][code[p]] = @ + 1]
  /\ \/ /\ stored' = [list[p] EXCEPT !.unused = @ \ {code[p]}]
        /\ lostUpdate' = (lostUpdate \/ stored # list[p])
        /\ UNCHANGED loginFaults
     \/ /\ loginFaults < MaxLoginFaults /\ loginFaults' = loginFaults + 1
        /\ UNCHANGED <<stored, lostUpdate>>
  /\ LoginReturn(p)
  /\ UNCHANGED <<time, limits, creds, setups, challenged>>

\* ConfirmTOTPSetup, the code being right: the credential is inserted ...
CreateMFACredential(p) ==
  /\ loginPc[p] = "idle" /\ setups < MaxSetups
  /\ setups' = setups + 1
  /\ creds' = creds \cup {setups + 1}
  /\ setup' = [setup EXCEPT ![p] = setups + 1]
  /\ LoginGoto(p, "storeCodes")
  /\ UNCHANGED <<time, limits, stored, uses, lostUpdate, challenged, ip, list, code, loginFaults>>

\* ... and then its new backup codes replace those of earlier set-ups.
StoreCodes_IfAny(p) ==
  /\ loginPc[p] = "storeCodes"
  /\ stored' = IF stored = NoCodes THEN stored
               ELSE [setup |-> setup[p], unused |-> CodeNames]
  /\ LoginReturn(p)
  /\ UNCHANGED <<time, limits, creds, setups, uses, lostUpdate, challenged, loginFaults>>
StoreCodes(p) ==
  /\ loginPc[p] = "storeCodes"
  /\ stored' = [setup |-> setup[p], unused |-> CodeNames]
  /\ LoginReturn(p)
  /\ UNCHANGED <<time, limits, creds, setups, uses, lostUpdate, challenged, loginFaults>>

\* RemoveCredential: one statement.  The backup codes stay.
RemoveCredential(c) ==
  /\ creds' = creds \ {c} /\ c \in creds
  /\ UNCHANGED <<time, limits, setups, stored, uses, lostUpdate, challenged, loginLocals, loginFaults>>

\* A statement fails and the handler returns an error.  When it is the look-up
\* of the user before the hash comparison, the limiter is told nothing.
LoginFails(p) ==
  /\ loginPc[p] \in {"password", "listMFA", "readCodes", "storeCodes"} /\ loginFaults < MaxLoginFaults
  /\ loginFaults' = loginFaults + 1
  /\ LoginReturn(p)
  /\ UNCHANGED <<time, limits, mfa, challenged>>

\* The server restarts: handlers and limiter are gone, tables and tokens stay.
Restart ==
  /\ loginFaults < MaxLoginFaults /\ loginFaults' = loginFaults + 1
  /\ attempts' = [a \in IPs |-> 0]
  /\ lockedUntil' = [a \in IPs |-> Never]
  /\ loginPc' = [p \in LoginProcs |-> "idle"]
  /\ ip' = [p \in LoginProcs |-> NoEntry]
  /\ setup' = [p \in LoginProcs |-> 0]
  /\ list' = [p \in LoginProcs |-> NoCodes]
  /\ code' = [p \in LoginProcs |-> NoEntry]
  /\ UNCHANGED <<time, onTheDot, mfa, challenged>>

RunCleanup ==
  /\ Cleanup
  /\ UNCHANGED <<time, onTheDot, mfa, challenged, loginLocals, loginFaults>>

LoginTick ==
  /\ time < MaxLoginTime /\ time' = time + 1
  /\ UNCHANGED <<limits, mfa, challenged, loginLocals, loginFaults>>

----------------------------------------------------------------------------

LoginInit ==
  /\ time = 1
  /\ New
  /\ creds = {}
  /\ setups = 0
  /\ stored = NoCodes
  /\ uses = [s \in Setups |-> [c \in CodeNames |-> 0]]
  /\ lostUpdate = FALSE
  /\ onTheDot = FALSE
  /\ challenged = FALSE
  /\ loginPc = [p \in LoginProcs |-> "idle"]
  /\ ip = [p \in LoginProcs |-> NoEntry]
  /\ setup = [p \in LoginProcs |-> 0]
  /\ list = [p \in LoginProcs |-> NoCodes]
  /\ code = [p \in LoginProcs |-> NoEntry]
  /\ loginFaults = 0

Handle(p) ==
  \/ \E a \in IPs : BeginLogin(p, a)
  \/ PasswordWrong(p)
  \/ PasswordRight(p)
  \/ ListMFA(p)
  \/ BeginBackupCode(p)
  \/ UseBackupCode(p)
  \/ WriteCodes(p)
  \/ CreateMFACredential(p)
  \/ StoreCodes(p)
  \/ LoginFails(p)

LoginNext ==
  \/ \E p \in LoginProcs : Handle(p)
  \/ \E c \in Setups : RemoveCredential(c)
  \/ RunCleanup
  \/ Restart
  \/ LoginTick

LoginSpec == LoginInit /\ [][LoginNext]_loginVars

----------------------------------------------------------------------------
(* Properties *)

\* A lock ends the guessing: short of an answer from IsBlocked before it began,
\* no request of the address gets to the hash comparison, and the count goes past
\* MaxAttemptsShort by fewer requests than there are goroutines.  A failure at
\* the nanosecond in which a lock ends (neither Before nor After it) is the
\* exception.  (By the same bound a single client never comes to
\* MaxAttemptsLong: LongLockEarned in MCRateLimit.)
LockBoundsGuesses ==
  ~onTheDot => \A a \in IPs : attempts[a] < MaxAttemptsShort + Cardinality(LoginProcs)

Succeeds(p) == loginPc[p] = "password" /\ loginPc'[p] = "listMFA"

\* A running lock is never cut short, by the cleanup or by further failures:
\* only a correct password that was on its way when the lock began, or a
\* restart, lifts it.
LockHolds ==
  [][\A a \in IPs : IsBlocked(a) =>
       \/ lockedUntil'[a] >= lockedUntil[a]
       \/ \E p \in LoginProcs : ip[p] = a /\ Succeeds(p)
       \/ loginFaults' # loginFaults]_loginVars

\* A backup code signs in once, as long as no two requests read and write the
\* list across each other and no write fails.
BackupCodeOnce ==
  loginFaults = 0 /\ ~lostUpdate => \A s \in Setups, c \in CodeNames : uses[s][c] <= 1

\* An account that asks for a second factor has a list of backup codes, or its
\* set-up is about to store one.
MfaHasCodes ==
  loginFaults = 0 /\ creds # {} =>
    stored.setup # 0 \/ \E p \in LoginProcs : loginPc[p] = "storeCodes"
=============================================================================
