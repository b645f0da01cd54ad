------------------------------- MODULE Alerts -------------------------------
(***************************************************************************)
(* The alert engine: thresholds, breach counters, the alerts table and the *)
(* webhook (internal/alerts/service.go, internal/handler/alerts.go).       *)
(*                                                                         *)
(* A key is a metric with its resource: "cpu", "ram", "disk:/", ...  One   *)
(* pass of Evaluate holds the service's mutex and judges one key after the *)
(* other; each judgement is one step, since only passes touch the table.   *)
(* Every change of the table starts a goroutine that posts a notice of it  *)
(* to the webhook, once, in no order with the others.  Severity, wording   *)
(* and the trend taken from lastValues are left out: nothing reads them    *)
(* back.  sendWebhook reads lastValues without the mutex; what that race   *)
(* can do to the engine is to end the process, as RestartServer does.      *)
(***************************************************************************)
EXTENDS Integers, Sequences, FiniteSets

CONSTANTS
  Keys,
  Order,      \* the keys in the order in which a pass visits them
  TypeOf,     \* a key's metric type
  Mounts,     \* the keys of disks, which a snapshot may lack
  Warnings,   \* warning thresholds that can be configured
  DefaultThresholds,
  Values,     \* measured values
  AlertIds,   \* ids of alerts active or under way at the same time (bounds the table)
  NoKey,
  MaxFaults   \* bound on failed statements and notices

Types == {TypeOf[k] : k \in Keys}

\* A type that is not configured counts as disabled; the critical threshold lies
\* above the warning and decides nothing but the severity.
Threshold == [warning : Warnings, enabled : BOOLEAN]

ASSUME AlertsAssumption ==
  /\ Order \in Seq(Keys) /\ Keys = {Order[i] : i \in DOMAIN Order}
  /\ DOMAIN TypeOf = Keys /\ Mounts \subseteq Keys
  /\ Warnings \subseteq Int /\ Values \subseteq Int
  /\ DefaultThresholds \in [Types -> Threshold]
  /\ NoKey \notin Keys /\ IsFiniteSet(AlertIds)
  /\ MaxFaults \in Nat

VARIABLES
  thresholds,   \* type -> warning threshold and the enabled flag
  consecutiveViolations,  \* 2 stands for "2 or more"
  active,       \* table alerts, the rows without resolved_at: their keys
  todo,         \* places in Order that the running pass has still to judge
  notices,      \* goroutines of sendWebhook: notices on their way
  told,         \* the webhook's receiver: the events it heard of an alert, while not
                \* both; followed as long as no notice is lost
  lost,         \* history: a notice did not arrive
  verdict,      \* history: how each key was judged last, "below" before
  faults

webhook == <<notices, told, lost>>
alertVars == <<thresholds, consecutiveViolations, active, todo, webhook, verdict, faults>>

Notice == [id : AlertIds, event : {"triggered", "resolved"}]

----------------------------------------------------------------------------

AlertsTypeOK ==
  /\ thresholds \in [Types -> Threshold]
  /\ consecutiveViolations \in [Keys -> 0 .. 2]
  /\ active \in [AlertIds -> Keys \cup {NoKey}]
  /\ todo \subseteq DOMAIN Order
  /\ notices \subseteq Notice
  /\ told \in [AlertIds -> SUBSET {"triggered", "resolved"}]
  /\ lost \in BOOLEAN
  /\ verdict \in [Keys -> {"below", "over"}]
  /\ faults \in Nat

Fault == faults < MaxFaults /\ faults' = faults + 1

ActiveOfType(t) == {i \in AlertIds : active[i] # NoKey /\ TypeOf[active[i]] = t}

\* findActiveAlert returns any one alert of the type: it does not compare the
\* resource.  A failed query looks like no alert.
FindActive(k) == ActiveOfType(TypeOf[k])

----------------------------------------------------------------------------
(* A pass *)

\* Evaluate: cpu and ram, then the disks that the snapshot lists.
Evaluate ==
  /\ todo = {}
  /\ \E mounted \in SUBSET Mounts :
       todo' = {i \in DOMAIN Order : Order[i] \in (Keys \ Mounts) \cup mounted}
  /\ UNCHANGED <<thresholds, consecutiveViolations, active, webhook, verdict, faults>>

\* k is the next key of the pass.
NextKey(k) ==
  \E i \in todo : /\ \A j \in todo : i <= j
                  /\ k = Order[i]
                  /\ todo' = todo \ {i}

\* A disabled threshold, or one no longer configured, skips the key: counter
\* and alert stay as they are.
SkipMetric ==
  /\ \E k \in Keys : NextKey(k) /\ ~thresholds[TypeOf[k]].enabled
  /\ UNCHANGED <<thresholds, consecutiveViolations, active, webhook, verdict, faults>>

Judge(k, judged) ==
  /\ NextKey(k)
  /\ thresholds[TypeOf[k]].enabled
  /\ \E v \in Values :
       judged = IF v >= thresholds[TypeOf[k]].warning THEN "over" ELSE "below"
  /\ verdict' = [verdict EXCEPT ![k] = judged]

\* Ids are never used again: in the model, not while a notice is on its way.
Unused(i) == active[i] = NoKey /\ \A n \in notices : n.id # i

InsertAlert(i, k) ==
  /\ active' = [active EXCEPT ![i] = k]
  /\ told' = [told EXCEPT ![i] = {}]

Notify(i, event) == notices' = notices \cup {[id |-> i, event |-> event]}

\* The row is there before the receiver hears of it.
TriggerAlert(k) ==
  \E i \in AlertIds : Unused(i) /\ InsertAlert(i, k) /\ Notify(i, "triggered")

\* The insert reports an error, before or after it is done: no notice.
TriggerFails(k) ==
  /\ \/ UNCHANGED <<active, told>>
     \/ FindActive(k) = {} /\ \E i \in AlertIds : Unused(i) /\ InsertAlert(i, k)
  /\ UNCHANGED notices

\* Over the threshold: the second time in a row triggers, unless an alert of
\* the type is active.
JudgeOver_NoLookUp(k) ==
  /\ Judge(k, "over")
  /\ consecutiveViolations' =
       [consecutiveViolations EXCEPT ![k] = IF @ = 0 THEN 1 ELSE 2]
  /\ IF consecutiveViolations[k] = 0
     THEN UNCHANGED <<active, notices, told>>
     ELSE TriggerAlert(k)
  /\ UNCHANGED <<thresholds, lost, faults>>
JudgeOver(k) ==
  /\ Judge(k, "over")
  /\ consecutiveViolations' =
       [consecutiveViolations EXCEPT ![k] = IF @ = 0 THEN 1 ELSE 2]
  /\ \/ /\ consecutiveViolations[k] = 0 \/ FindActive(k) # {}
        /\ UNCHANGED <<active, notices, told, faults>>
     \/ /\ consecutiveViolations[k] # 0 /\ FindActive(k) = {}
        /\ TriggerAlert(k)
        /\ UNCHANGED faults
     \/ /\ consecutiveViolations[k] # 0
        /\ Fault
        /\ TriggerFails(k) \/ TriggerAlert(k)  \* or the query failed
  /\ UNCHANGED <<thresholds, lost>>

ResolveAlert_Silent(i) ==
  /\ active' = [active EXCEPT ![i] = NoKey]
  /\ UNCHANGED <<notices, told>>
ResolveAlert(i) ==
  /\ active' = [active EXCEPT ![i] = NoKey]
  /\ Notify(i, "resolved")
  /\ UNCHANGED told

\* Below it: the counter restarts and an active alert of the type is resolved.
JudgeBelow_CountingOnly(k) ==
  /\ Judge(k, "below")
  /\ consecutiveViolations' = [consecutiveViolations EXCEPT ![k] = 0]
  /\ IF consecutiveViolations[k] = 2 /\ FindActive(k) # {}
     THEN \E i \in FindActive(k) : ResolveAlert(i)
     ELSE UNCHANGED <<active, notices, told>>
  /\ UNCHANGED <<thresholds, lost, faults>>
JudgeBelow_KeepCount(k) ==
  /\ Judge(k, "below")
  /\ \/ \E i \in FindActive(k) : ResolveAlert(i)
     \/ FindActive(k) = {} /\ UNCHANGED <<active, notices, told>>
  /\ UNCHANGED <<thresholds, consecutiveViolations, lost, faults>>
JudgeBelow(k) ==
  /\ Judge(k, "below")
  /\ consecutiveViolations' = [consecutiveViolations EXCEPT ![k] = 0]
  /\ \/ /\ \E i \in FindActive(k) : ResolveAlert(i)
        /\ UNCHANGED faults
     \/ FindActive(k) = {} /\ UNCHANGED <<active, notices, told, faults>>
     \/ FindActive(k) # {} /\ Fault /\ UNCHANGED <<active, notices, told>>
  /\ UNCHANGED <<thresholds, lost>>

----------------------------------------------------------------------------
(* The webhook *)

Heard(i, event) ==
  LET heard == told[i] \cup {event}
  IN  IF lost \/ heard = {"triggered", "resolved"} THEN {} ELSE heard

\* sendWebhook: one request of at most ten seconds, which arrives or not.
SendWebhook(n) ==
  /\ n \in notices
  /\ notices' = notices \ {n}
  /\ \/ /\ told' = [told EXCEPT ![n.id] = Heard(n.id, n.event)]
        /\ UNCHANGED <<lost, faults>>
     \/ /\ Fault /\ lost' = TRUE
        /\ told' = [i \in AlertIds |-> {}]
  /\ UNCHANGED <<thresholds, consecutiveViolations, active, todo, verdict>>

----------------------------------------------------------------------------
(* The rest of the server *)

\* PUT /alerts/thresholds replaces them all, between two passes.
UpdateThresholds ==
  /\ todo = {}
  /\ thresholds' \in [Types -> Threshold]
  /\ UNCHANGED <<consecutiveViolations, active, todo, webhook, verdict, faults>>

\* Counters, thresholds and the webhook's goroutines live in memory, alerts in the table.
RestartServer ==
  /\ thresholds' = DefaultThresholds
  /\ consecutiveViolations' = [k \in Keys |-> 0]
  /\ todo' = {}
  /\ notices' = {} /\ lost' = (lost \/ notices # {})
  /\ told' = IF lost' THEN [i \in AlertIds |-> {}] ELSE told
  /\ UNCHANGED <<active, verdict, faults>>

AlertsInit ==
  /\ thresholds = DefaultThresholds
  /\ consecutiveViolations = [k \in Keys |-> 0]
  /\ active = [i \in AlertIds |-> NoKey]
  /\ todo = {}
  /\ notices = {} /\ told = [i \in AlertIds |-> {}] /\ lost = FALSE
  /\ verdict = [k \in Keys |-> "below"]
  /\ faults = 0

AlertsNext ==
  \/ Evaluate
  \/ SkipMetric
  \/ \E k \in Keys : JudgeOver(k) \/ JudgeBelow(k)
  \/ \E n \in notices : SendWebhook(n)
  \/ UpdateThresholds
  \/ RestartServer

AlertsSpec == AlertsInit /\ [][AlertsNext]_alertVars

----------------------------------------------------------------------------
(* Properties *)

AlertsOf(k) == {i \in AlertIds : active[i] = k}

\* "Kein doppeltes Auslösen" and "Alert löst sich automatisch auf": a metric that
\* is over its threshold has one alert at most and one that has recovered none, but
\* for one more with every statement or notice that failed.  Counters are lost in a
\* restart and thresholds change meanwhile, and still no alert stays behind.
AlertsFit ==
  \A k \in Keys :
    Cardinality(AlertsOf(k)) <= faults + (IF verdict[k] = "over" THEN 1 ELSE 0)

\* An alert is triggered by two judgements of its own key in a row; neither
\* another resource nor a restart in between lends it the first.
TwoInARow ==
  [][\A i \in AlertIds : active[i] = NoKey /\ active'[i] # NoKey =>
       verdict[active'[i]] = "over" /\ verdict'[active'[i]] = "over"]_alertVars

\* When every notice has arrived, in whatever order, the receiver takes no alert for
\* active that is not; unless a statement failed, it knows exactly the active ones.
NoticesFit ==
  notices = {} /\ ~lost =>
    \A i \in AlertIds :
      /\ told[i] = {"triggered"} => active[i] # NoKey
      /\ faults = 0 => told[i] = (IF active[i] = NoKey THEN {} ELSE {"triggered"})

\* "Alert löst sich automatisch auf wenn Metrik wieder unter Schwellwert fällt":
\* an alert ends because the metric that caused it is below its threshold.
ResolvedByOwnMetric ==
  [][\A i \in AlertIds : active[i] # NoKey /\ active'[i] = NoKey =>
       verdict'[active[i]] = "below"]_alertVars
=============================================================================
