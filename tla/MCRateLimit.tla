---------------------------- MODULE MCRateLimit ----------------------------
(***************************************************************************)
(* The login limiter as one client meets it, with a history of what        *)
(* RecordFailure has been told: the failures of an address since its entry *)
(* was last deleted (by a success, the cleanup or a restart).              *)
(***************************************************************************)
EXTENDS Login

VARIABLE failed

CountedInit == LoginInit /\ failed = [a \in IPs |-> 0]

Failure(p) ==
  /\ PasswordWrong(p)
  /\ failed' = [failed EXCEPT ![ip[p]] = @ + 1]

Other ==
  /\ LoginNext /\ ~ \E p \in LoginProcs : PasswordWrong(p)
  /\ failed' = [a \in IPs |-> IF attempts'[a] = 0 THEN 0 ELSE failed[a]]

CountedNext == Other \/ \E p \in LoginProcs : Failure(p)

CountedSpec == CountedInit /\ [][CountedNext]_<<loginVars, failed>>

\* "10 -> 1h" (README.md:44, ratelimit.go:12): the failure that makes it
\* MaxAttemptsLong locks the address for LockoutDurationLong.  What happens is
\* that MaxAttemptsShort failures lock it first, Login counts nothing while they
\* do, and RecordFailure starts from zero when the lock is over.
LongLockEarned ==
  [][\A a \in IPs : failed'[a] > failed[a] /\ failed'[a] >= MaxAttemptsLong =>
       lockedUntil'[a] = time + LockoutDurationLong]_<<loginVars, failed>>
=============================================================================
