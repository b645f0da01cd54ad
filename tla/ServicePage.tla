---------------------------- MODULE ServicePage ----------------------------
(***************************************************************************)
(* systemd services and processes: the page that asks twice before it      *)
(* stops a service (web/src/app/services/page.tsx), the handlers that ask  *)
(* the PIM engine (handler/services.go, ExecuteAction, and                 *)
(* handler/metrics.go, KillProcess), and Execute, which runs systemctl     *)
(* (services/service.go).  One browser with the page and one other client  *)
(* of the API; each has one request at a time.                             *)
(***************************************************************************)
EXTENDS Integers

CONSTANTS
  Units,
  protectedServices,  \* a subset of Units
  ConfirmTime,        \* the three seconds of setTimeout, in ticks
  NoUnit

ASSUME ServiceAssumption ==
  /\ protectedServices \subseteq Units /\ ConfirmTime \in Nat
  /\ NoUnit \notin Units /\ NoUnit \notin [unit : Units, age : Nat]

VARIABLES
  pimOpen,    \* CheckAndRecord would find an active session
  passed,     \* history: the clients whose check found an active session
  request,    \* what a client waits for
  stage,      \* where its handler is
  shown,      \* the page: the units it shows as active
  confirm,    \* the unit whose stop button asks again
  timers,     \* remaining times of the page's timeouts
  lastClick,  \* history: the last stop button clicked, and how long ago
  hasty       \* history: a stop was sent for anything but a second click in time

serviceVars ==
  <<pimOpen, passed, request, stage, shown, confirm, timers, lastClick, hasty>>
pim == <<pimOpen, passed>>
pageVars == <<shown, confirm, timers, lastClick, hasty>>

Clients == {"page", "api"}
unitActions == {"start", "stop", "restart", "enable", "disable", "reload"}
\* Of the unit of a request it matters whether its name is a protected one, and for these only.
unitEnders == {"stop", "disable"}
Requests ==
  [action : unitEnders, protected : BOOLEAN] \cup
  [action : (unitActions \cup {"kill", "unknown"}) \ unitEnders, protected : {FALSE}]
RequestFor(u, a) == [action |-> a, protected |-> a \in unitEnders /\ u \in protectedServices]

ServiceTypeOK ==
  /\ shown \subseteq Units
  /\ pimOpen \in BOOLEAN
  /\ passed \subseteq Clients
  /\ request \in [Clients -> Requests \cup {NoUnit}]
  /\ stage \in [Clients -> {"idle", "check", "execute", "ok", "failed"}]
  /\ confirm \in Units \cup {NoUnit}
  /\ timers \subseteq 0 .. ConfirmTime
  /\ lastClick \in {NoUnit} \cup [unit : Units, age : 0 .. ConfirmTime + 1]
  /\ hasty \in BOOLEAN

ServiceInit ==
  /\ shown = Units
  /\ pimOpen = FALSE /\ passed = {}
  /\ request = [c \in Clients |-> NoUnit]
  /\ stage = [c \in Clients |-> "idle"]
  /\ confirm = NoUnit /\ timers = {} /\ lastClick = NoUnit /\ hasty = FALSE

----------------------------------------------------------------------------
(* The page *)

Send(c, r) ==
  /\ request' = [request EXCEPT ![c] = r]
  /\ stage' = [stage EXCEPT ![c] = "check"]
  /\ passed' = passed \ {c}

SendStop(u) ==
  /\ Send("page", RequestFor(u, "stop"))
  /\ hasty' = (hasty \/ lastClick = NoUnit \/ lastClick.unit # u \/ lastClick.age > ConfirmTime)
  /\ UNCHANGED <<confirm, timers>>

\* No timeout is ever cleared, and each one clears whatever confirmation there is when it fires.
AskAgain(u) ==
  /\ confirm' = u
  /\ timers' = timers \cup {ConfirmTime}
  /\ UNCHANGED <<passed, request, stage, hasty>>

\* The stop button is there for a unit that is shown as active; it is disabled for a protected one, and like all
\* others while the mutation is pending.
StopEnabled(u) == u \in shown \ protectedServices /\ stage["page"] = "idle"

ClickStop_AnyUnit(u) ==
  /\ StopEnabled(u)
  /\ IF confirm # NoUnit THEN SendStop(u) ELSE AskAgain(u)
  /\ lastClick' = [unit |-> u, age |-> 0]
  /\ UNCHANGED <<pimOpen, shown>>
\* handleAction with "stop".
ClickStop(u) ==
  /\ StopEnabled(u)
  /\ IF confirm = u THEN SendStop(u) ELSE AskAgain(u)
  /\ lastClick' = [unit |-> u, age |-> 0]
  /\ UNCHANGED <<pimOpen, shown>>

\* handleAction with "start" and "restart", which ask nothing.
ClickOther(u) ==
  /\ stage["page"] = "idle"
  /\ \E a \in IF u \in shown THEN {"restart"} ELSE {"start", "restart"} :
       Send("page", RequestFor(u, a))
  /\ UNCHANGED <<pimOpen, pageVars>>

\* onSuccess and onError; a success also makes the query stale, which Refetch follows.
Answered ==
  /\ stage["page"] \in {"ok", "failed"}
  /\ stage' = [stage EXCEPT !["page"] = "idle"]
  /\ request' = [request EXCEPT !["page"] = NoUnit]
  /\ confirm' = NoUnit
  /\ UNCHANGED <<pim, shown, timers, lastClick, hasty>>

\* Units start and fail of themselves: the list may be any.
Refetch ==
  /\ shown' \in SUBSET Units
  /\ UNCHANGED <<pim, request, stage, confirm, timers, lastClick, hasty>>

\* A timeout fires on time.
TimerFires ==
  /\ 0 \in timers
  /\ timers' = timers \ {0}
  /\ confirm' = NoUnit
  /\ UNCHANGED <<pim, request, stage, shown, lastClick, hasty>>

PageTick ==
  /\ 0 \notin timers
  /\ timers # {}
  /\ timers' = {t - 1 : t \in timers}
  /\ lastClick' = [lastClick EXCEPT !.age = IF @ > ConfirmTime THEN @ ELSE @ + 1]
  /\ UNCHANGED <<pim, request, stage, shown, confirm, hasty>>

----------------------------------------------------------------------------
(* The server *)

ApiCall ==
  /\ stage["api"] = "idle"
  /\ \E r \in Requests : Send("api", r)
  /\ UNCHANGED <<pimOpen, pageVars>>

ApiAnswered ==
  /\ stage["api"] \in {"ok", "failed"}
  /\ stage' = [stage EXCEPT !["api"] = "idle"]
  /\ request' = [request EXCEPT !["api"] = NoUnit]
  /\ UNCHANGED <<pim, pageVars>>

\* What asks the PIM engine; the package comment of services names start and enable as well.
requiresPIM(a) == a \in {"stop", "disable", "restart", "kill"}

\* An error is the same whatever was asked for.
Fail(c) ==
  /\ stage' = [stage EXCEPT ![c] = "failed"]
  /\ request' = [request EXCEPT ![c] = NoUnit]

\* CheckAndRecord, whose statements are in Pim; it comes before the request is looked at, and the session may end
\* while the action runs.
CheckPIM(c) ==
  /\ stage[c] = "check"
  /\ IF requiresPIM(request[c].action) /\ ~pimOpen
     THEN /\ Fail(c)
          /\ UNCHANGED passed
     ELSE /\ stage' = [stage EXCEPT ![c] = "execute"]
          /\ passed' = IF requiresPIM(request[c].action) THEN passed \cup {c} ELSE passed
          /\ UNCHANGED request
  /\ UNCHANGED <<pimOpen, pageVars>>

Refused(r) ==
  \/ r.action = "unknown"
  \/ r.action \in unitEnders /\ r.protected

\* Execute and killProcess; systemctl may fail, and the process may be gone or its number be none.
Execute(c) ==
  /\ stage[c] = "execute"
  /\ \/ ~Refused(request[c]) /\ stage' = [stage EXCEPT ![c] = "ok"] /\ UNCHANGED request
     \/ Fail(c)
  /\ UNCHANGED <<pim, pageVars>>

\* A PIM session begins or ends.
PimChanges ==
  /\ pimOpen' = ~pimOpen
  /\ UNCHANGED <<passed, request, stage, pageVars>>

ServiceNext ==
  \/ \E u \in Units : ClickStop(u) \/ ClickOther(u)
  \/ Answered \/ Refetch \/ TimerFires \/ PageTick
  \/ ApiCall \/ ApiAnswered \/ PimChanges
  \/ \E c \in Clients : CheckPIM(c) \/ Execute(c)

----------------------------------------------------------------------------
(* Properties *)

\* The page sends a stop only for a second click on the same button within the confirmation time, though timeouts
\* of earlier clicks keep running.
ConfirmedTwice == ~hasty

\* What ends or disturbs a service or process.
Privileged == {"stop", "disable", "restart", "kill"}

\* Every stop, disable, restart and kill that succeeds had a check of its own that found an active session.
RunsWereAllowed ==
  \A c \in Clients : stage[c] = "ok" /\ request[c].action \in Privileged => c \in passed

\* What ends a service is meant, and allowed.
StopsDeliberate == ConfirmedTwice /\ RunsWereAllowed
=============================================================================
