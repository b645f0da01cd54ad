----------------------------- MODULE AlertBadge -----------------------------
(***************************************************************************)
(* The bell in the top bar and its toasts (web/src/components/alerts/      *)
(* alert-badge.tsx, toast.tsx), fed every 15 s with the list of active     *)
(* alerts (internal/alerts/service.go, listAlerts).                        *)
(*                                                                         *)
(* The bell keeps the number of alerts of the last answer, not which ones  *)
(* they were.  Severity and wording are left out.                          *)
(***************************************************************************)
EXTENDS Integers, Sequences, FiniteSets, SequencesExt

CONSTANTS
  MaxAlerts,   \* bound on the alerts of a behaviour
  MaxToasts,   \* 5 in the code
  MaxSeconds

ASSUME BadgeAssumption == MaxAlerts \in Nat /\ MaxToasts \in Nat \ {0} /\ MaxSeconds \in Nat

VARIABLES
  triggeredAt,   \* the table: the second of each alert
  open,          \* alerts without resolved_at
  second,
  data,          \* the last answer, or NoData
  prevCount,
  toasts,        \* alerts whose toasts are on the page
  announced      \* history: how often the bell has announced each alert, to 2

badgeVars == <<triggeredAt, open, second, data, prevCount, toasts, announced>>

NoData == <<0>>
All == 1 .. Len(triggeredAt)

BadgeTypeOK ==
  /\ triggeredAt \in Seq(0 .. second) /\ Len(triggeredAt) <= MaxAlerts
  /\ open \subseteq All
  /\ second \in 0 .. MaxSeconds
  /\ data = NoData \/ data \in Seq(All)
  /\ prevCount \in 0 .. MaxAlerts
  /\ toasts \in Seq(All) /\ Len(toasts) <= MaxToasts
  /\ announced \in [1 .. MaxAlerts -> 0 .. 2]

BadgeInit ==
  /\ triggeredAt = << >> /\ open = {} /\ second = 0
  /\ data = NoData /\ prevCount = 0 /\ toasts = << >>
  /\ announced = [a \in 1 .. MaxAlerts |-> 0]

\* The engine and the clock.
AlertComes ==
  /\ Len(triggeredAt) < MaxAlerts
  /\ triggeredAt' = Append(triggeredAt, second)
  /\ open' = open \cup {Len(triggeredAt) + 1}
  /\ UNCHANGED <<second, data, prevCount, toasts, announced>>

AlertGoes ==
  /\ \E a \in open : open' = open \ {a}
  /\ UNCHANGED <<triggeredAt, second, data, prevCount, toasts, announced>>

SecondPasses ==
  /\ second < MaxSeconds
  /\ second' = second + 1
  /\ UNCHANGED <<triggeredAt, open, data, prevCount, toasts, announced>>

\* ORDER BY triggered_at DESC, which counts in seconds; rows of one second come in
\* the order of their insertion.
Before(a, b) == triggeredAt[a] > triggeredAt[b] \/ (triggeredAt[a] = triggeredAt[b] /\ a < b)
Listings ==
  {list \in [1 .. Cardinality(open) -> open] :
     /\ Range(list) = open
     /\ \A i, j \in DOMAIN list : i < j => Before(list[i], list[j])}

KeptToasts == IF Len(toasts) < MaxToasts THEN toasts ELSE Tail(toasts)

\* The effect on a new answer: the first of the list is announced when the count has
\* grown, from more than none.  At most MaxToasts stay.  addToast always finds its
\* container: Providers mounts it around every page, and it takes a second answer to
\* announce anything.
Announce_OnChange(list) ==
  IF list # << >> /\ prevCount > 0
  THEN /\ toasts' = Append(KeptToasts, Head(list))
       /\ announced' = [announced EXCEPT ![Head(list)] = IF @ = 0 THEN 1 ELSE 2]
  ELSE UNCHANGED <<toasts, announced>>
Announce(list) ==
  IF Len(list) > prevCount /\ prevCount > 0
  THEN /\ toasts' = Append(KeptToasts, Head(list))
       /\ announced' = [announced EXCEPT ![Head(list)] = IF @ = 0 THEN 1 ELSE 2]
  ELSE UNCHANGED <<toasts, announced>>

\* The query's answer; one equal to the last is the same object, and has no effect.
\* A poll that fails keeps the data.
Poll ==
  /\ \E list \in Listings :
       /\ list # data
       /\ data' = list
       /\ Announce(list)
       /\ prevCount' = Len(list)
  /\ UNCHANGED <<triggeredAt, open, second>>

\* The page is loaded anew, or nothing has shown the bell until the cache forgot its
\* data.  A top bar that finds the data in the cache starts from its count.
Reload ==
  /\ data' = NoData /\ prevCount' = 0 /\ toasts' = << >>
  /\ UNCHANGED <<triggeredAt, open, second, announced>>

\* Its timer or the user.
Dismiss ==
  /\ \E i \in DOMAIN toasts : toasts' = RemoveAt(toasts, i)
  /\ UNCHANGED <<triggeredAt, open, second, data, prevCount, announced>>

BadgeNext ==
  \/ AlertComes \/ AlertGoes \/ SecondPasses
  \/ Poll \/ Reload \/ Dismiss

----------------------------------------------------------------------------
(* Properties *)

Alone(a) == \A b \in All \ {a} : triggeredAt[b] # triggeredAt[a]

\* The bell tells by its count alone that the first alert of the list is new, and is
\* right: no alert is announced twice, whatever came and went between two answers,
\* and the toasts stand in the order of their alerts, unless some were triggered in
\* the same second.
AnnouncedOnce ==
  /\ \A a \in All : announced[a] = 2 => ~Alone(a)
  /\ \A i, j \in DOMAIN toasts : i < j /\ Alone(toasts[i]) => toasts[i] < toasts[j]
=============================================================================
