----------------------------- MODULE MCAccounts -----------------------------
(***************************************************************************)
(* TLC instances of what decides who may use the panel: setup and user     *)
(* management, sessions with their tokens, and signing in.  They are       *)
(* explored side by side in one run: part says which one a behaviour is    *)
(* about, the others rest in their initial states.                         *)
(***************************************************************************)
EXTENDS UserAdmin, Sessions, Login, TLC

VARIABLE part

accountVars == <<part, adminVars, vars, loginVars>>

\* Every part keeps its types.
AccountsTypeOK ==
  CASE part = "admin" -> AdminTypeOK
    [] part = "sessions" -> TypeOK
    [] part = "login" -> LoginTypeOK

AccountsInit ==
  /\ part \in {"admin", "sessions", "login"}
  /\ AdminInit /\ Init /\ LoginInit

\* Session ids are drawn in their order: which of the unused ones it is makes no difference.
InOrder == \A s, t \in SessionIds : t < s /\ user_id'[s] # None => user_id'[t] # None

AccountsNext ==
  /\ UNCHANGED part
  /\ \/ part = "admin" /\ AdminNext /\ UNCHANGED <<vars, loginVars>>
     \/ part = "sessions" /\ Next /\ InOrder /\ UNCHANGED <<adminVars, loginVars>>
     \/ part = "login" /\ LoginNext /\ UNCHANGED <<adminVars, vars>>

AccountsSpec == AccountsInit /\ [][AccountsNext]_accountVars

\* Identifiers are interchangeable; only safety is checked.  Since one part moves at a time, the
\* parts take their identifiers from the same few values, and one permutation serves them all.
Symmetry == Permutations(Procs) \cup Permutations(CodeNames)
=============================================================================
