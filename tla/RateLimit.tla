----------------------------- MODULE RateLimit -----------------------------
(***************************************************************************)
(* The login rate limiter (internal/ratelimit/ratelimit.go): failures per  *)
(* address, kept in memory.  Every method runs under the limiter's mutex   *)
(* and is one atomic step.                                                 *)
(***************************************************************************)
EXTENDS Integers

CONSTANTS
  IPs,
  MaxAttemptsShort, LockoutDurationShort,
  MaxAttemptsLong, LockoutDurationLong

ASSUME RateLimitAssumption ==
  /\ MaxAttemptsShort \in Nat \ {0} /\ LockoutDurationShort \in Nat
  /\ MaxAttemptsLong \in Nat /\ LockoutDurationLong \in Nat
  /\ MaxAttemptsShort <= MaxAttemptsLong
  /\ LockoutDurationShort <= LockoutDurationLong

VARIABLES
  time,
  attempts,    \* 0: no entry (an entry starts with its first failure)
  lockedUntil  \* Never is the zero time

limiter == <<attempts, lockedUntil>>

Never == 0

LimiterTypeOK ==
  /\ time \in Nat \ {0}
  /\ attempts \in [IPs -> Nat]
  /\ lockedUntil \in [IPs -> Nat]

New ==
  /\ attempts = [ip \in IPs |-> 0]
  /\ lockedUntil = [ip \in IPs |-> Never]

IsBlocked(ip) == time < lockedUntil[ip]

Expired(ip) == lockedUntil[ip] # Never /\ time > lockedUntil[ip]

\* A lock that is over restarts the count.
RecordFailure_NoRestart(ip) ==
  LET n == attempts[ip] + 1 IN
  /\ attempts' = [attempts EXCEPT ![ip] = n]
  /\ lockedUntil' = [lockedUntil EXCEPT ![ip] =
       CASE n >= MaxAttemptsLong -> time + LockoutDurationLong
         [] n >= MaxAttemptsShort /\ n < MaxAttemptsLong -> time + LockoutDurationShort
         [] n < MaxAttemptsShort -> @]
RecordFailure(ip) ==
  LET n == IF Expired(ip) THEN 1 ELSE attempts[ip] + 1 IN
  /\ attempts' = [attempts EXCEPT ![ip] = n]
  /\ lockedUntil' = [lockedUntil EXCEPT ![ip] =
       CASE n >= MaxAttemptsLong -> time + LockoutDurationLong
         [] n >= MaxAttemptsShort /\ n < MaxAttemptsLong -> time + LockoutDurationShort
         [] n < MaxAttemptsShort -> IF Expired(ip) THEN Never ELSE @]

Reset_Decrement(ip) ==
  /\ attempts' = [attempts EXCEPT ![ip] = @ - 1]
  /\ lockedUntil' = [lockedUntil EXCEPT ![ip] = Never]
Reset(ip) ==
  /\ attempts' = [attempts EXCEPT ![ip] = 0]
  /\ lockedUntil' = [lockedUntil EXCEPT ![ip] = Never]

\* The periodic cleanup keeps an entry of MaxAttemptsShort failures or more
\* even when its lock is long over.
Stale_Either(ip) == time > lockedUntil[ip] \/ attempts[ip] >= MaxAttemptsShort
Stale(ip) == time > lockedUntil[ip] /\ attempts[ip] < MaxAttemptsShort

Cleanup ==
  /\ attempts' = [ip \in IPs |-> IF Stale(ip) THEN 0 ELSE attempts[ip]]
  /\ lockedUntil' = [ip \in IPs |-> IF Stale(ip) THEN Never ELSE lockedUntil[ip]]
=============================================================================
