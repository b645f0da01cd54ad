----------------------------- MODULE PagesProofs -----------------------------
(***************************************************************************)
(* Proofs about the pages in the browser: stopping services, the live log, *)
(* the bell and its toasts, the metrics socket.  For any number of units,  *)
(* sockets, pages and alerts.                                              *)
(***************************************************************************)
EXTENDS ServicePage, LogView, AlertBadge, MetricsSocket, SequenceTheorems, FiniteSetTheorems,
        TLAPS

ServiceSpec == ServiceInit /\ [][ServiceNext]_serviceVars
ViewSpec == ViewInit /\ [][ViewNext]_viewVars
BadgeSpec == BadgeInit /\ [][BadgeNext]_badgeVars
SocketSpec == SocketInit /\ [][SocketNext]_socketVars

----------------------------------------------------------------------------
(* Stopping services *)

USE ServiceAssumption

Clicks == [unit : Units, age : 0 .. ConfirmTime + 1]

\* A confirmation on a page that waits for nothing stands for the last click, and one of the
\* timeouts is that click's.
ConfirmFresh ==
  confirm # NoUnit /\ stage["page"] = "idle" =>
    /\ lastClick \in Clicks /\ lastClick.unit = confirm
    /\ \E t \in timers : t + lastClick.age = ConfirmTime

\* Past the check, what needs a session has found one.
Checked ==
  \A c \in Clients : stage[c] \in {"execute", "ok"} /\ request[c].action \in Privileged
    => c \in passed

ServiceInv ==
  /\ confirm \in Units \cup {NoUnit}
  /\ timers \subseteq 0 .. ConfirmTime
  /\ request \in [Clients -> Requests \cup {NoUnit}]
  /\ stage \in [Clients -> {"idle", "check", "execute", "ok", "failed"}]
  /\ passed \subseteq Clients
  /\ ConfirmFresh /\ Checked /\ ConfirmedTwice

\* A click is none of the values that stand for no click.
LEMMA ClickTyped ==
  ASSUME NEW k \in Clicks
  PROVE  k # NoUnit /\ k.unit \in Units /\ k.age \in 0 .. ConfirmTime + 1
<1>1. k \in [unit : Units, age : Nat]
  BY DEF Clicks, ServiceAssumption
<1> QED BY <1>1 DEF Clicks, ServiceAssumption

\* A page that has just been opened asks for nothing.
LEMMA ServiceStarts == ServiceInit => ServiceInv
BY DEF ServiceInit, ServiceInv, ConfirmFresh, Checked, ConfirmedTwice

\* Sending a request makes its client wait for a check of its own.
LEMMA SendChecked ==
  ASSUME ServiceInv, NEW c \in Clients, NEW r \in Requests, Send(c, r)
  PROVE  /\ request' \in [Clients -> Requests \cup {NoUnit}]
         /\ stage' \in [Clients -> {"idle", "check", "execute", "ok", "failed"}]
         /\ stage'[c] = "check" /\ \A d \in Clients : d # c => stage'[d] = stage[d]
         /\ passed' \subseteq Clients /\ Checked'
BY DEF Send, ServiceInv, Checked

\* Every step of page and server keeps it.
LEMMA ServiceStep == ServiceInv /\ [ServiceNext]_serviceVars => ServiceInv'
<1> SUFFICES ASSUME ServiceInv, [ServiceNext]_serviceVars PROVE ServiceInv'
  OBVIOUS
<1> USE DEF ServiceInv
<1>0. "page" \in Clients /\ "api" \in Clients
  BY DEF Clients
<1>1. \A u \in Units, a \in unitActions : RequestFor(u, a) \in Requests
  BY DEF RequestFor, Requests, unitActions, unitEnders
<1>2. ASSUME NEW u \in Units, ClickStop(u) PROVE ServiceInv'
  <2>1. /\ stage["page"] = "idle" /\ lastClick' = [unit |-> u, age |-> 0]
    BY <1>2 DEF ClickStop, StopEnabled
  <2>2. CASE confirm = u
    <3>1. SendStop(u)
      BY <1>2, <2>2 DEF ClickStop
    <3>2. Send("page", RequestFor(u, "stop")) /\ RequestFor(u, "stop") \in Requests
      BY <1>1, <3>1 DEF SendStop, unitActions
    <3>3. ~hasty'
      <4>1. /\ lastClick \in Clicks /\ lastClick.unit = u
            /\ \E t \in timers : t + lastClick.age = ConfirmTime
        BY <2>1, <2>2 DEF ConfirmFresh, ServiceAssumption
      <4>2. lastClick.age <= ConfirmTime /\ lastClick # NoUnit
        <5>1. PICK t \in timers : t + lastClick.age = ConfirmTime
          BY <4>1
        <5>2. t \in 0 .. ConfirmTime /\ lastClick.age \in 0 .. ConfirmTime + 1
          BY <4>1, ClickTyped
        <5> QED BY <4>1, <5>1, <5>2, ClickTyped DEF ServiceAssumption
      <4>3. ~(lastClick = NoUnit \/ lastClick.unit # u \/ lastClick.age > ConfirmTime)
        BY <4>1, <4>2 DEF Clicks, ServiceAssumption
      <4> QED BY <3>1, <4>3 DEF SendStop, ConfirmedTwice
    <3>4. ConfirmFresh'
      BY <1>0, <3>2, SendChecked DEF ConfirmFresh
    <3> QED BY <1>0, <3>1, <3>2, <3>3, <3>4, SendChecked DEF SendStop, ConfirmedTwice
  <2>3. CASE confirm # u
    <3>1. AskAgain(u)
      BY <1>2, <2>3 DEF ClickStop
    <3>2. ConfirmFresh'
      <4>1. lastClick' \in Clicks /\ lastClick'.unit = u /\ lastClick'.age = 0
        BY <2>1 DEF Clicks, ServiceAssumption
      <4>2. ConfirmTime \in timers' /\ confirm' = u
        BY <3>1 DEF AskAgain
      <4>3. \E t \in timers' : t + lastClick'.age = ConfirmTime
        BY <4>1, <4>2 DEF ServiceAssumption
      <4> QED BY <4>1, <4>2, <4>3 DEF ConfirmFresh
    <3>3. timers' \subseteq 0 .. ConfirmTime /\ confirm' \in Units \cup {NoUnit}
      BY <3>1 DEF AskAgain, ServiceAssumption
    <3>4. UNCHANGED <<passed, request, stage, hasty>>
      BY <3>1 DEF AskAgain
    <3> QED BY <3>2, <3>3, <3>4 DEF Checked, ConfirmedTwice
  <2> QED BY <2>2, <2>3
<1>3. ASSUME NEW u \in Units, ClickOther(u) PROVE ServiceInv'
  <2>1. PICK a \in unitActions : Send("page", RequestFor(u, a))
    BY <1>3 DEF ClickOther, unitActions
  <2> QED BY <1>0, <1>1, <1>3, <2>1, SendChecked
        DEF ClickOther, pageVars, ConfirmFresh, ConfirmedTwice
<1>4. CASE ApiCall
  <2>1. PICK r \in Requests : Send("api", r)
    BY <1>4 DEF ApiCall
  <2>2. stage'["page"] = stage["page"]
    BY <1>0, <2>1, SendChecked
  <2> QED BY <1>0, <1>4, <2>1, <2>2, SendChecked DEF ApiCall, pageVars, ConfirmFresh, ConfirmedTwice
<1>5. CASE Answered
  BY <1>5 DEF Answered, pim, ConfirmFresh, Checked, ConfirmedTwice
<1>6. CASE ApiAnswered
  BY <1>0, <1>6 DEF ApiAnswered, pim, pageVars, ConfirmFresh, Checked, ConfirmedTwice
<1>7. CASE Refetch \/ PimChanges \/ UNCHANGED serviceVars
  <2>1. UNCHANGED <<passed, request, stage, confirm, timers, lastClick, hasty>>
    BY <1>7 DEF Refetch, PimChanges, serviceVars, pim, pageVars
  <2> QED BY <2>1 DEF ConfirmFresh, Checked, ConfirmedTwice
<1>8. CASE TimerFires
  BY <1>8 DEF TimerFires, pim, ConfirmFresh, Checked, ConfirmedTwice
<1>9. CASE PageTick
  <2>1. timers' = {t - 1 : t \in timers} /\ 0 \notin timers
        /\ UNCHANGED <<pim, request, stage, shown, confirm, hasty>>
    BY <1>9 DEF PageTick
  <2>2. timers' \subseteq 0 .. ConfirmTime
    <3> SUFFICES ASSUME NEW t \in timers PROVE t - 1 \in 0 .. ConfirmTime
      BY <2>1
    <3>1. t \in 0 .. ConfirmTime /\ t # 0
      BY <2>1
    <3> QED BY <3>1 DEF ServiceAssumption
  <2>3. ConfirmFresh'
    <3> SUFFICES ASSUME confirm # NoUnit, stage["page"] = "idle"
                 PROVE  /\ lastClick' \in Clicks /\ lastClick'.unit = confirm
                        /\ \E t \in timers' : t + lastClick'.age = ConfirmTime
      BY <2>1 DEF ConfirmFresh
    <3>1. PICK t \in timers : t + lastClick.age = ConfirmTime
      BY DEF ConfirmFresh
    <3>2. lastClick \in Clicks /\ lastClick.unit = confirm
      BY DEF ConfirmFresh
    <3>3. t \in 1 .. ConfirmTime /\ lastClick.age \in Nat /\ lastClick.age <= ConfirmTime
      <4>1. t \in 0 .. ConfirmTime /\ t # 0 /\ lastClick.age \in 0 .. ConfirmTime + 1
        BY <2>1, <3>2, ClickTyped
      <4> QED BY <3>1, <4>1 DEF ServiceAssumption
    <3>4. lastClick' = [lastClick EXCEPT !.age = lastClick.age + 1]
      BY <1>9, <3>3 DEF PageTick, ServiceAssumption
    <3>5. /\ lastClick' \in Clicks /\ lastClick'.unit = confirm
          /\ lastClick'.age = lastClick.age + 1
      BY <3>2, <3>3, <3>4 DEF Clicks, ServiceAssumption
    <3>6. t - 1 \in timers' /\ (t - 1) + lastClick'.age = ConfirmTime
      BY <2>1, <3>1, <3>3, <3>5 DEF ServiceAssumption
    <3> QED BY <3>5, <3>6
  <2>4. UNCHANGED <<passed, request, stage, confirm, hasty>>
    BY <2>1 DEF pim
  <2>5. Checked' /\ ConfirmedTwice'
    BY <2>4 DEF Checked, ConfirmedTwice
  <2> QED BY <2>2, <2>3, <2>4, <2>5
<1>10. ASSUME NEW c \in Clients, CheckPIM(c) PROVE ServiceInv'
  <2>1. UNCHANGED <<confirm, timers, lastClick, hasty>> /\ stage[c] = "check"
    BY <1>10 DEF CheckPIM, pageVars
  <2>2. CASE Fail(c) /\ UNCHANGED passed
    BY <2>1, <2>2 DEF Fail, ConfirmFresh, Checked, ConfirmedTwice
  <2>3. CASE ~(Fail(c) /\ UNCHANGED passed)
    <3>1. /\ stage' = [stage EXCEPT ![c] = "execute"] /\ UNCHANGED request
          /\ passed' = IF requiresPIM(request[c].action) THEN passed \cup {c} ELSE passed
      BY <1>10, <2>3 DEF CheckPIM
    <3>2. Checked'
      BY <3>1 DEF Checked, requiresPIM, Privileged
    <3> QED BY <2>1, <3>1, <3>2 DEF ConfirmFresh, ConfirmedTwice
  <2> QED BY <2>2, <2>3
<1>11. ASSUME NEW c \in Clients, Execute(c) PROVE ServiceInv'
  <2>1. UNCHANGED <<passed, confirm, timers, lastClick, hasty>> /\ stage[c] = "execute"
    BY <1>11 DEF Execute, pim, pageVars
  <2>2. CASE Fail(c)
    BY <2>1, <2>2 DEF Fail, ConfirmFresh, Checked, ConfirmedTwice
  <2>3. CASE stage' = [stage EXCEPT ![c] = "ok"] /\ UNCHANGED request
    BY <2>1, <2>3 DEF ConfirmFresh, Checked, ConfirmedTwice
  <2> QED BY <1>11, <2>2, <2>3 DEF Execute
<1> QED BY <1>2, <1>3, <1>4, <1>5, <1>6, <1>7, <1>8, <1>9, <1>10, <1>11 DEF ServiceNext

\* The page sends a stop only for a second click in time although handleAction clears no timeout,
\* and nothing privileged runs without a check of its own.
THEOREM StopsAreDeliberate == ServiceSpec => []StopsDeliberate
<1>1. ServiceInv => StopsDeliberate
  BY DEF ServiceInv, Checked, RunsWereAllowed, StopsDeliberate
<1> QED BY <1>1, ServiceStarts, ServiceStep, PTL DEF ServiceSpec

\* What a page shows and counts; there is a timeout only after a click.
PageTypeOK ==
  /\ shown \subseteq Units
  /\ pimOpen \in BOOLEAN
  /\ lastClick \in {NoUnit} \cup Clicks
  /\ hasty \in BOOLEAN
  /\ timers # {} => lastClick \in Clicks

LEMMA PageTypeStep == PageTypeOK /\ [ServiceNext]_serviceVars => PageTypeOK'
<1> SUFFICES ASSUME PageTypeOK, [ServiceNext]_serviceVars PROVE PageTypeOK'
  OBVIOUS
<1> USE DEF PageTypeOK
<1>1. ASSUME NEW u \in Units, ClickStop(u) PROVE PageTypeOK'
  <2>1. lastClick' \in Clicks
    BY <1>1 DEF ClickStop, Clicks
  <2>2. hasty' \in BOOLEAN
    BY <1>1 DEF ClickStop, SendStop, AskAgain
  <2> QED BY <1>1, <2>1, <2>2 DEF ClickStop
<1>2. CASE PageTick
  <2>1. lastClick \in Clicks /\ UNCHANGED <<shown, pimOpen, hasty>>
    BY <1>2 DEF PageTick, pim
  <2>2. lastClick.age \in 0 .. ConfirmTime + 1
    BY <2>1, ClickTyped
  <2> DEFINE older == IF lastClick.age > ConfirmTime THEN lastClick.age ELSE lastClick.age + 1
  <2>3. older \in 0 .. ConfirmTime + 1 /\ lastClick' = [lastClick EXCEPT !.age = older]
    BY <1>2, <2>2 DEF PageTick
  <2> HIDE DEF older
  <2>4. lastClick' \in Clicks
    BY <2>1, <2>3 DEF Clicks
  <2> QED BY <2>1, <2>4
<1>3. CASE UNCHANGED pageVars /\ (pimOpen' = pimOpen \/ pimOpen' = ~pimOpen)
  BY <1>3 DEF pageVars
<1>4. CASE Answered \/ TimerFires
  BY <1>4 DEF Answered, TimerFires, pim
<1>5. CASE Refetch
  BY <1>5 DEF Refetch, pim
<1> QED
  BY <1>1, <1>2, <1>3, <1>4, <1>5 DEF ServiceNext, serviceVars, pageVars, pim, ClickOther, ApiCall, ApiAnswered,
     PimChanges, CheckPIM, Execute

\* Page, requests and timeouts keep their types.
THEOREM ServiceTypeCorrect == ServiceSpec => []ServiceTypeOK
<1>1. ServiceInit => PageTypeOK
  BY DEF ServiceInit, PageTypeOK
<1>2. ServiceInv /\ PageTypeOK => ServiceTypeOK
  BY DEF ServiceInv, PageTypeOK, ServiceTypeOK, Clicks
<1> QED BY <1>1, <1>2, ServiceStarts, ServiceStep, PageTypeStep, PTL DEF ServiceSpec

HIDE ServiceAssumption

----------------------------------------------------------------------------
(* The live log in the browser *)

USE ViewAssumption

\* Of the sockets of this page only the one in use is open, and it goes on where the page ends.
ViewFits == ~crossed =>
  /\ \A s \in ViewSockets \ left : wsState[s] = "open" => live /\ viewRef = s
  /\ \A s \in ViewSockets \ left : wsState[s] = "open" /\ liveEntries # << >> =>
       liveEntries[Len(liveEntries)] = pos[s]
  /\ \A i \in 1 .. Len(liveEntries) - 1 : liveEntries[i + 1] = liveEntries[i] + 1

ViewInv ==
  /\ liveEntries \in Seq(Int)
  /\ wsState \in [ViewSockets -> {"new", "open", "closing", "closed"}]
  /\ logged \in Int /\ pos \in [ViewSockets -> Int]
  /\ ViewFits

\* A page that has just been opened has no socket.
LEMMA ViewStarts == ViewInit => ViewInv
BY DEF ViewInit, ViewInv, ViewFits

\* The last lines of a sequence without gaps have none.
LEMMA LastLines ==
  ASSUME NEW q \in Seq(Int), Len(q) > MaxShown,
         \A i \in 1 .. Len(q) - 1 : q[i + 1] = q[i] + 1
  PROVE  /\ LastShown(q) \in Seq(Int)
         /\ \A i \in 1 .. Len(LastShown(q)) - 1 : LastShown(q)[i + 1] = LastShown(q)[i] + 1
         /\ LastShown(q) # << >> => LastShown(q)[Len(LastShown(q))] = q[Len(q)]
<1> DEFINE m == Len(q) - MaxShown + 1
           kept == SubSeq(q, m, Len(q))
<1>1. Len(q) \in Nat /\ m \in 1 .. Len(q) + 1
  BY LenProperties DEF ViewAssumption
<1>2. \A i \in m .. Len(q) : q[i] \in Int
  BY <1>1, ElementOfSeq
<1>3. m \in Int /\ Len(q) \in Int
  BY <1>1
<1> HIDE DEF m
<1>4. /\ kept \in Seq(Int) /\ Len(kept) = (IF m <= Len(q) THEN Len(q) - m + 1 ELSE 0)
      /\ \A i \in 1 .. Len(q) - m + 1 : kept[i] = q[m + i - 1]
  BY <1>2, <1>3, SubSeqProperties
<1> DEFINE k == Len(kept)
           n == Len(q)
<1>5. LastShown(q) = kept
  BY DEF LastShown, m
<1>6. /\ k \in Nat /\ n \in Nat /\ m \in Int /\ k = n - m + 1
      /\ \A i \in 1 .. k : kept[i] = q[m + i - 1]
      /\ \A j \in 1 .. n - 1 : q[j + 1] = q[j] + 1
      /\ kept \in Seq(Int) /\ (kept # << >> => k # 0)
      /\ 1 <= m
  <2>1. Len(kept) = Len(q) - m + 1
    BY <1>1, <1>4
  <2>2. k \in Nat /\ n \in Nat /\ m \in Int /\ k = n - m + 1 /\ 1 <= m
    BY <1>1, <2>1
  <2>3. kept \in Seq(Int)
    BY <1>4
  <2>4. \A i \in 1 .. k : kept[i] = q[m + i - 1]
    BY <1>4, <2>1
  <2>5. kept # << >> => k # 0
    BY <2>3, EmptySeq
  <2> QED BY <2>2, <2>3, <2>4, <2>5
<1> HIDE DEF kept, k, n
<1>7. ASSUME NEW i \in 1 .. k - 1 PROVE kept[i + 1] = kept[i] + 1
  <2> DEFINE j == m + i - 1
  <2>1. k \in Nat /\ n \in Nat /\ m \in Int /\ k = n - m + 1 /\ 1 <= m /\ i \in 1 .. k - 1
    BY <1>6, <1>7
  <2>2. i \in Int /\ 1 <= i /\ i <= k - 1
    BY <2>1
  <2>3. j \in Int /\ 1 <= j /\ j <= n - 1
    BY <2>1, <2>2
  <2>4. i \in 1 .. k /\ i + 1 \in 1 .. k
    BY <2>1, <2>2
  <2>5. m + (i + 1) - 1 = j + 1
    BY <2>1, <2>2
  <2>6. j \in 1 .. n - 1 /\ i \in 1 .. k /\ i + 1 \in 1 .. k /\ m + (i + 1) - 1 = j + 1
    BY <2>1, <2>3, <2>4, <2>5
  <2>7. kept[i] = q[j] /\ kept[i + 1] = q[m + (i + 1) - 1]
    BY <1>6, <2>6
  <2> HIDE DEF j
  <2>8. q[j + 1] = q[j] + 1
    BY <1>6, <2>6
  <2> QED BY <2>6, <2>7, <2>8
<1>8. ASSUME kept # << >> PROVE kept[k] = q[n]
  <2>1. k \in 1 .. k /\ m + k - 1 = n
    BY <1>6, <1>8
  <2>2. kept[k] = q[m + k - 1]
    BY <1>6, <2>1
  <2> QED BY <2>1, <2>2
<1> QED BY <1>5, <1>6, <1>7, <1>8 DEF k, n

\* Every step of page, sockets and server keeps it.
LEMMA ViewStep == ViewInv /\ [ViewNext]_viewVars => ViewInv'
<1> SUFFICES ASSUME ViewInv, [ViewNext]_viewVars PROVE ViewInv'
  OBVIOUS
<1> USE DEF ViewInv
<1>1. ASSUME NEW s \in ViewSockets, StartLive(s) PROVE ViewInv'
  <2>1. liveEntries' = << >> /\ liveEntries' \in Seq(Int) /\ Len(liveEntries') = 0
    BY <1>1, EmptySeq DEF StartLive
  <2>2. ~live /\ viewRef' = s /\ live' = TRUE /\ UNCHANGED <<logged, left, crossed>>
    BY <1>1 DEF StartLive
  <2>3. wsState' = [wsState EXCEPT ![s] = "open"] /\ pos' = [pos EXCEPT ![s] = logged]
    BY <1>1 DEF StartLive
  <2>4. ASSUME ~crossed, NEW r \in ViewSockets \ left, wsState'[r] = "open" PROVE r = s
    BY <2>2, <2>3, <2>4 DEF ViewFits
  <2>5. ViewFits'
    BY <2>1, <2>2, <2>4 DEF ViewFits
  <2> QED BY <2>1, <2>2, <2>3, <2>5
<1>2. CASE StopLive
  <2>1. \A s \in ViewSockets : wsState'[s] = "open" => wsState[s] = "open" /\ viewRef # s
    BY <1>2 DEF StopLive
  <2>2. UNCHANGED <<liveEntries, logged, pos, left, crossed>>
    BY <1>2 DEF StopLive
  <2>3. wsState' \in [ViewSockets -> {"new", "open", "closing", "closed"}]
    BY <1>2 DEF StopLive
  <2> QED BY <2>1, <2>2, <2>3 DEF ViewFits
<1>3. CASE Logs
  BY <1>3 DEF Logs, ViewFits
<1>4. ASSUME NEW s \in ViewSockets, OnMessage(s) PROVE ViewInv'
  <2> DEFINE longer == Append(liveEntries, pos[s] + 1)
  <2>1. /\ wsState[s] = "open" /\ pos' = [pos EXCEPT ![s] = @ + 1]
        /\ UNCHANGED <<live, viewRef, logged, wsState, left, crossed>>
    BY <1>4 DEF OnMessage
  <2>2. CASE s \in left
    <3>1. liveEntries' = liveEntries
      BY <1>4, <2>2 DEF OnMessage
    <3> QED BY <2>1, <2>2, <3>1 DEF ViewFits
  <2>3. CASE s \notin left
    <3>1. liveEntries' = IF Len(longer) > MaxShown THEN LastShown(longer) ELSE longer
      BY <1>4, <2>3 DEF OnMessage
    <3>2. /\ longer \in Seq(Int) /\ Len(longer) = Len(liveEntries) + 1
          /\ \A i \in 1 .. Len(liveEntries) : longer[i] = liveEntries[i]
          /\ longer[Len(longer)] = pos[s] + 1 /\ Len(liveEntries) \in Nat
      BY AppendProperties, LenProperties
    <3>3. liveEntries = << >> \/ Len(liveEntries) > 0
      BY <3>2, EmptySeq
    <3> HIDE DEF longer
    <3>4. ASSUME ~crossed
          PROVE  \A i \in 1 .. Len(longer) - 1 : longer[i + 1] = longer[i] + 1
      <4> SUFFICES ASSUME NEW i \in 1 .. Len(longer) - 1 PROVE longer[i + 1] = longer[i] + 1
        OBVIOUS
      <4>1. CASE i < Len(liveEntries)
        <5> DEFINE long == Len(longer)
                   short == Len(liveEntries)
        <5>1. long = short + 1 /\ short \in Nat /\ i \in 1 .. long - 1 /\ i < short
          BY <3>2, <4>1
        <5> HIDE DEF long, short
        <5>2. i \in 1 .. short - 1 /\ i + 1 \in 1 .. short /\ i \in 1 .. short
          BY <5>1
        <5>3. /\ i \in 1 .. Len(liveEntries) - 1 /\ i \in 1 .. Len(liveEntries)
              /\ i + 1 \in 1 .. Len(liveEntries)
          BY <5>2 DEF short
        <5>4. liveEntries[i + 1] = liveEntries[i] + 1
          BY <3>4, <5>3 DEF ViewFits
        <5>5. longer[i] = liveEntries[i] /\ longer[i + 1] = liveEntries[i + 1]
          BY <3>2, <5>3
        <5> QED BY <5>4, <5>5
      <4>2. CASE i = Len(liveEntries)
        <5>1. liveEntries # << >> /\ liveEntries[i] = pos[s]
          BY <2>1, <2>3, <3>2, <3>4, <4>2, EmptySeq DEF ViewFits
        <5> QED BY <3>2, <4>2, <5>1
      <4> QED BY <3>2, <4>1, <4>2
    <3>5. liveEntries' \in Seq(Int)
      <4>1. CASE Len(longer) > MaxShown
        <5>1. \A i \in (Len(longer) - MaxShown + 1) .. Len(longer) : longer[i] \in Int
          <6> SUFFICES ASSUME NEW i \in (Len(longer) - MaxShown + 1) .. Len(longer)
                       PROVE  longer[i] \in Int
            OBVIOUS
          <6>1. i \in 1 .. Len(longer)
            BY <3>2, <4>1, ViewAssumption
          <6> QED BY <3>2, <6>1, ElementOfSeq
        <5>2. LastShown(longer) \in Seq(Int)
          BY <3>2, <5>1, SubSeqProperties DEF LastShown, ViewAssumption
        <5> QED BY <3>1, <4>1, <5>2
      <4> QED BY <3>1, <3>2, <4>1
    <3>6. ASSUME ~crossed
          PROVE  /\ \A i \in 1 .. Len(liveEntries') - 1 : liveEntries'[i + 1] = liveEntries'[i] + 1
                 /\ liveEntries' # << >> => liveEntries'[Len(liveEntries')] = pos[s] + 1
      <4>1. CASE Len(longer) > MaxShown
        BY <3>1, <3>2, <3>4, <3>6, <4>1, LastLines
      <4>2. CASE ~(Len(longer) > MaxShown)
        BY <3>1, <3>2, <3>4, <3>6, <4>2
      <4> QED BY <4>1, <4>2
    <3>7. ViewFits'
      BY <2>1, <2>3, <3>6 DEF ViewFits
    <3> QED BY <2>1, <3>5, <3>7
  <2> QED BY <2>2, <2>3
<1>5. ASSUME NEW s \in ViewSockets, ServerCloses(s) PROVE ViewInv'
  BY <1>5 DEF ServerCloses, ViewFits
<1>6. ASSUME NEW s \in ViewSockets, OnClose(s) PROVE ViewInv'
  <2>1. /\ wsState[s] = "closing" /\ wsState' = [wsState EXCEPT ![s] = "closed"]
        /\ UNCHANGED <<liveEntries, viewRef, logged, pos, left>>
    BY <1>6 DEF OnClose
  <2>2. live' = (live /\ s \in left) /\ crossed' = (crossed \/ (live /\ s \notin left /\ viewRef # s))
    BY <1>6 DEF OnClose
  <2>3. ASSUME ~crossed', NEW r \in ViewSockets \ left, wsState'[r] = "open"
        PROVE  ~crossed /\ wsState[r] = "open" /\ live /\ viewRef = r /\ s \in left
    <3>1. wsState[r] = "open" /\ r # s
      BY <2>1, <2>3
    <3>2. ~crossed /\ ~(live /\ s \notin left /\ viewRef # s)
      BY <2>2, <2>3, Zenon
    <3> QED BY <3>1, <3>2, <2>3 DEF ViewFits
  <2>4. ~crossed' => ~crossed
    BY <2>2, Zenon
  <2>5. ASSUME ~crossed', NEW r \in ViewSockets \ left, wsState'[r] = "open" PROVE live'
    BY <2>2, <2>3, <2>5
  <2>6. ViewFits'
    BY <2>1, <2>3, <2>4, <2>5 DEF ViewFits
  <2> QED BY <2>1, <2>6
<1>7. CASE LeavePage
  <2>1. /\ left' = {s \in ViewSockets : wsState[s] # "new"} /\ liveEntries' = << >>
        /\ UNCHANGED <<logged, wsState, pos>>
    BY <1>7 DEF LeavePage
  <2>2. Len(liveEntries') = 0 /\ liveEntries' \in Seq(Int)
    BY <2>1, EmptySeq
  <2> QED BY <2>1, <2>2 DEF ViewFits
<1>8. CASE UNCHANGED viewVars
  BY <1>8 DEF viewVars, ViewFits
<1> QED BY <1>1, <1>2, <1>3, <1>4, <1>5, <1>6, <1>7, <1>8 DEF ViewNext

\* As long as no close event of an earlier socket comes late, one socket feeds the page, and the
\* lines of onmessage stand on it in order and without a gap, however many it keeps.
THEOREM ViewIsSound == ViewSpec => []ViewSound
<1>1. ViewInv => ViewSound
  BY DEF ViewInv, ViewFits, ViewSound
<1> QED BY <1>1, ViewStarts, ViewStep, PTL DEF ViewSpec

\* An entry more, cut to what the page shows.
LEMMA ShownTyped ==
  ASSUME NEW S, NEW q \in Seq(S), NEW e \in S, Len(q) <= MaxShown
  PROVE  LET next == Append(q, e)
         IN  IF Len(next) > MaxShown THEN LastShown(next) \in Seq(S) /\ Len(LastShown(next)) <= MaxShown
                                     ELSE next \in Seq(S) /\ Len(next) <= MaxShown
<1> DEFINE next == Append(q, e)
           n == Len(next)
           m == n - MaxShown + 1
<1>1. next \in Seq(S) /\ n \in Nat
  BY AppendProperties, LenProperties
<1> HIDE DEF next, n
<1>2. CASE n > MaxShown
  <2>1. m \in 1 .. n + 1 /\ m \in Int
    BY <1>1, <1>2
  <2>2. \A i \in m .. n : next[i] \in S
    <3> SUFFICES ASSUME NEW i \in m .. n PROVE next[i] \in S
      OBVIOUS
    <3>1. i \in 1 .. n
      BY <1>1, <2>1
    <3> QED BY <1>1, <3>1, ElementOfSeq DEF n
  <2>3. LastShown(next) = SubSeq(next, m, n)
    BY DEF LastShown, n
  <2> HIDE DEF m
  <2>4. /\ SubSeq(next, m, n) \in Seq(S)
        /\ Len(SubSeq(next, m, n)) = IF m <= n THEN n - m + 1 ELSE 0
    BY <1>1, <2>1, <2>2, SubSeqProperties
  <2>5. (IF m <= n THEN n - m + 1 ELSE 0) <= MaxShown
    BY <1>1, <2>1 DEF m
  <2> QED BY <1>2, <2>3, <2>4, <2>5 DEF n, next
<1>3. CASE ~(n > MaxShown)
  BY <1>1, <1>3 DEF n, next
<1> QED BY <1>2, <1>3

LEMMA ViewTypeStep == ViewTypeOK /\ [ViewNext]_viewVars => ViewTypeOK'
<1> SUFFICES ASSUME ViewTypeOK, [ViewNext]_viewVars PROVE ViewTypeOK'
  OBVIOUS
<1> USE DEF ViewTypeOK
<1>1. ASSUME NEW s \in ViewSockets, StartLive(s) PROVE ViewTypeOK'
  <2>1. liveEntries' \in Seq(1 .. MaxLogged) /\ Len(liveEntries') = 0
    BY <1>1, EmptySeq DEF StartLive
  <2> QED BY <1>1, <2>1 DEF StartLive
<1>2. CASE StopLive
  BY <1>2 DEF StopLive
<1>3. CASE Logs
  <2>1. logged' \in 0 .. MaxLogged /\ 0 .. logged \subseteq 0 .. logged'
    BY <1>3 DEF Logs
  <2>2. pos' \in [ViewSockets -> 0 .. logged']
    BY <1>3, <2>1 DEF Logs
  <2> QED BY <1>3, <2>1, <2>2 DEF Logs
<1>4. ASSUME NEW s \in ViewSockets, OnMessage(s) PROVE ViewTypeOK'
  <2>1. pos[s] + 1 \in 1 .. MaxLogged /\ pos[s] + 1 \in 0 .. logged
    BY <1>4 DEF OnMessage
  <2>2. liveEntries' \in Seq(1 .. MaxLogged) /\ Len(liveEntries') <= MaxShown
    BY <1>4, <2>1, ShownTyped DEF OnMessage
  <2>3. pos' \in [ViewSockets -> 0 .. logged']
    BY <1>4, <2>1 DEF OnMessage
  <2> QED BY <1>4, <2>2, <2>3 DEF OnMessage
<1>5. ASSUME NEW s \in ViewSockets, ServerCloses(s) \/ OnClose(s) PROVE ViewTypeOK'
  <2>1. live' \in BOOLEAN /\ crossed' \in BOOLEAN
    BY <1>5 DEF ServerCloses, OnClose
  <2>2. wsState' \in [ViewSockets -> {"new", "open", "closing", "closed"}]
    BY <1>5 DEF ServerCloses, OnClose
  <2> QED BY <1>5, <2>1, <2>2 DEF ServerCloses, OnClose
<1>6. CASE LeavePage
  <2>1. liveEntries' \in Seq(1 .. MaxLogged) /\ Len(liveEntries') <= MaxShown
    <3>1. Len(liveEntries') = 0 /\ liveEntries' \in Seq(1 .. MaxLogged)
      BY <1>6, EmptySeq DEF LeavePage
    <3> QED BY <3>1
  <2>2. /\ live' = FALSE /\ crossed' = FALSE /\ viewRef' = NoView /\ left' \subseteq ViewSockets
        /\ UNCHANGED <<logged, wsState, pos>>
    BY <1>6 DEF LeavePage
  <2> QED BY <2>1, <2>2
<1>7. CASE UNCHANGED viewVars
  BY <1>7 DEF viewVars
<1> QED BY <1>1, <1>2, <1>3, <1>4, <1>5, <1>6, <1>7 DEF ViewNext

\* The page's lines are lines of the server, and no more than it shows.
THEOREM ViewTypeCorrect == ViewSpec => []ViewTypeOK
<1>1. ViewInit => ViewTypeOK
  <2> SUFFICES ASSUME ViewInit PROVE ViewTypeOK
    OBVIOUS
  <2>1. liveEntries \in Seq(1 .. MaxLogged) /\ Len(liveEntries) <= MaxShown
    <3>1. Len(liveEntries) = 0 /\ liveEntries \in Seq(1 .. MaxLogged)
      BY EmptySeq DEF ViewInit
    <3> QED BY <3>1
  <2>2. /\ live = FALSE /\ crossed = FALSE /\ viewRef = NoView /\ left = {} /\ logged = 0
        /\ wsState = [s \in ViewSockets |-> "new"] /\ pos = [s \in ViewSockets |-> 0]
    BY DEF ViewInit
  <2>3. logged \in 0 .. MaxLogged /\ pos \in [ViewSockets -> 0 .. logged]
    BY <2>2
  <2> QED BY <2>1, <2>2, <2>3 DEF ViewTypeOK
<1> QED BY <1>1, ViewTypeStep, PTL DEF ViewSpec

HIDE ViewAssumption

----------------------------------------------------------------------------
(* The metrics socket *)

USE SocketAssumption

\* Whose socket it is: one in use is held by its page, which is mounted and has no timer set, one that closes is left
\* over from a page that is gone, and no page that is there holds another's.
OwnersFit ==
  /\ \A s \in Sockets : owner[s] = NoSocket <=> sock[s] = "free"
  /\ \A s \in Sockets : sock[s] \in {"connecting", "open"} =>
       mount[owner[s]] = "mounted" /\ wsRef[owner[s]] = s /\ ~timer[owner[s]]
  /\ \A s \in Sockets : sock[s] = "closing" => mount[owner[s]] = "unmounted"
  /\ \A p \in Pages : mount[p] = "new" => wsRef[p] = NoSocket /\ ~timer[p] /\ ~connected[p]
  /\ \A p \in Pages : mount[p] = "mounted" /\ wsRef[p] # NoSocket /\ sock[wsRef[p]] # "free" =>
       owner[wsRef[p]] = p

SocketInv == SocketTypeOK /\ OwnersFit /\ ConnectedIsTrue

\* Nobody has mounted anything.
LEMMA SocketStarts == SocketInit => SocketInv
<1> SUFFICES ASSUME SocketInit PROVE SocketInv
  OBVIOUS
<1>1. SocketTypeOK
  BY DEF SocketInit, SocketTypeOK, Tokens
<1>2. OwnersFit /\ ConnectedIsTrue
  BY DEF SocketInit, OwnersFit, ConnectedIsTrue
<1> QED BY <1>1, <1>2 DEF SocketInv

\* What connect does to the sockets.
LEMMA ConnectTyped ==
  ASSUME SocketInv, NEW p \in Pages, connect(p)
  PROVE  /\ wsRef' \in [Pages -> Sockets \cup {NoSocket}]
         /\ sock' \in [Sockets -> {"free", "connecting", "open", "closing"}]
         /\ owner' \in [Sockets -> Pages \cup {NoSocket}]
         /\ bearer' \in [Sockets -> Tokens]
BY DEF connect, SocketInv, SocketTypeOK

\* A page that takes a free socket, having had none in use, comes to own and hold it.
LEMMA ConnectKeeps ==
  ASSUME SocketInv, NEW p \in Pages, connect(p), mount'[p] = "mounted", ~timer'[p],
         \A q \in Pages : q # p => mount'[q] = mount[q] /\ timer'[q] = timer[q],
         connected' = connected, ~connected[p],
         \A s \in Sockets : owner[s] = p => sock[s] \notin {"connecting", "open", "closing"},
         mount[p] = "mounted" \/ wsRef[p] = NoSocket
  PROVE  OwnersFit' /\ ConnectedIsTrue'
<1> USE DEF SocketInv, SocketTypeOK
<1>1. CASE token = "none"
  <2>1. UNCHANGED <<wsRef, sock, owner, connected>>
    BY <1>1 DEF connect
  <2>2. OwnersFit'
    BY <2>1 DEF OwnersFit
  <2>3. ConnectedIsTrue'
    BY <2>1 DEF ConnectedIsTrue
  <2> QED BY <2>2, <2>3
<1>2. CASE token # "none"
  <2>1. PICK s \in Sockets :
          /\ sock[s] = "free"
          /\ \A q \in Pages \ {p} : mount[q] = "mounted" => wsRef[q] # s
          /\ wsRef' = [wsRef EXCEPT ![p] = s]
          /\ sock' = [sock EXCEPT ![s] = "connecting"]
          /\ owner' = [owner EXCEPT ![s] = p]
    BY <1>2 DEF connect
  <2>2. /\ wsRef'[p] = s /\ \A q \in Pages : q # p => wsRef'[q] = wsRef[q]
        /\ sock'[s] = "connecting" /\ owner'[s] = p
        /\ \A r \in Sockets : r # s => sock'[r] = sock[r] /\ owner'[r] = owner[r]
    BY <2>1
  <2>3. \A r \in Sockets : r # s /\ sock[r] # "free" => owner[r] \in Pages /\ owner[r] # p
    BY DEF OwnersFit
  <2>4. OwnersFit'
    <3>1. \A r \in Sockets : owner'[r] = NoSocket <=> sock'[r] = "free"
      BY <2>2 DEF OwnersFit
    <3>2. \A r \in Sockets : sock'[r] \in {"connecting", "open"} =>
            mount'[owner'[r]] = "mounted" /\ wsRef'[owner'[r]] = r /\ ~timer'[owner'[r]]
      BY <2>2, <2>3 DEF OwnersFit
    <3>3. \A r \in Sockets : sock'[r] = "closing" => mount'[owner'[r]] = "unmounted"
      BY <2>2, <2>3 DEF OwnersFit
    <3>4. \A q \in Pages : mount'[q] = "new" => wsRef'[q] = NoSocket /\ ~timer'[q] /\ ~connected'[q]
      BY <2>2 DEF OwnersFit
    <3>5. \A q \in Pages : mount'[q] = "mounted" /\ wsRef'[q] # NoSocket /\ sock'[wsRef'[q]] # "free" =>
            owner'[wsRef'[q]] = q
      BY <2>1, <2>2 DEF OwnersFit
    <3> QED BY <3>1, <3>2, <3>3, <3>4, <3>5 DEF OwnersFit
  <2>5. ConnectedIsTrue'
    BY <2>1, <2>2 DEF ConnectedIsTrue
  <2> QED BY <2>4, <2>5
<1> QED BY <1>1, <1>2

LEMMA MountKeeps == ASSUME SocketInv, NEW p \in Pages, Mount(p) PROVE SocketInv'
<1> USE DEF SocketInv
<1>1. /\ mount[p] = "new" /\ mount' = [mount EXCEPT ![p] = "mounted"] /\ connect(p)
      /\ UNCHANGED <<timer, connected, token>>
  BY DEF Mount
<1>2. SocketTypeOK'
  BY <1>1, ConnectTyped DEF SocketTypeOK
<1>3. /\ mount'[p] = "mounted" /\ ~timer'[p] /\ ~connected[p] /\ wsRef[p] = NoSocket
      /\ \A q \in Pages : q # p => mount'[q] = mount[q] /\ timer'[q] = timer[q]
      /\ \A s \in Sockets : owner[s] = p => sock[s] \notin {"connecting", "open", "closing"}
  BY <1>1 DEF OwnersFit, SocketTypeOK
<1> QED BY <1>1, <1>2, <1>3, ConnectKeeps

LEMMA ReconnectKeeps == ASSUME SocketInv, NEW p \in Pages, Reconnect(p) PROVE SocketInv'
<1> USE DEF SocketInv
<1>1. /\ timer[p] /\ timer' = [timer EXCEPT ![p] = FALSE]
      /\ UNCHANGED <<mount, connected, token>>
  BY DEF Reconnect
<1>2. CASE mount[p] = "mounted"
  <2>1. connect(p)
    BY <1>2 DEF Reconnect
  <2>2. SocketTypeOK'
    BY <1>1, <2>1, ConnectTyped DEF SocketTypeOK
  <2>3. \A s \in Sockets : owner[s] = p => sock[s] \notin {"connecting", "open", "closing"}
    BY <1>1, <1>2 DEF OwnersFit
  <2>4. ~connected[p]
    BY <1>1, <1>2, <2>3 DEF OwnersFit, ConnectedIsTrue, SocketTypeOK
  <2>5. /\ ~timer'[p] /\ \A q \in Pages : q # p => timer'[q] = timer[q]
    BY <1>1 DEF SocketTypeOK
  <2> QED BY <1>1, <1>2, <2>1, <2>2, <2>3, <2>4, <2>5, ConnectKeeps
<1>3. CASE mount[p] # "mounted"
  <2>1. UNCHANGED <<wsRef, sock, owner, bearer>>
    BY <1>3 DEF Reconnect
  <2>2. /\ ~timer'[p] /\ \A q \in Pages : q # p => timer'[q] = timer[q]
    BY <1>1 DEF SocketTypeOK
  <2>3. SocketTypeOK'
    BY <1>1, <2>1 DEF SocketTypeOK
  <2>4. OwnersFit' /\ ConnectedIsTrue'
    BY <1>1, <1>3, <2>1, <2>2 DEF OwnersFit, ConnectedIsTrue, SocketTypeOK
  <2> QED BY <2>3, <2>4
<1> QED BY <1>2, <1>3

LEMMA UnmountKeeps == ASSUME SocketInv, NEW p \in Pages, Unmount(p) PROVE SocketInv'
<1> USE DEF SocketInv, SocketTypeOK
<1>1. /\ mount[p] = "mounted" /\ mount' = [mount EXCEPT ![p] = "unmounted"]
      /\ timer' = [timer EXCEPT ![p] = FALSE]
      /\ UNCHANGED <<wsRef, connected, owner, bearer, token>>
  BY DEF Unmount
<1>2. /\ mount'[p] = "unmounted" /\ ~timer'[p]
      /\ \A q \in Pages : q # p => mount'[q] = mount[q] /\ timer'[q] = timer[q]
  BY <1>1
<1>3. /\ sock' \in [Sockets -> {"free", "connecting", "open", "closing"}]
      /\ \A s \in Sockets : IF s = wsRef[p] /\ sock[s] # "free" THEN sock'[s] = "closing"
                                                             ELSE sock'[s] = sock[s]
  BY DEF Unmount, Closing
<1>4. SocketTypeOK'
  BY <1>1, <1>3
<1>5. OwnersFit'
  <2>1. \A s \in Sockets : owner[s] = NoSocket <=> sock'[s] = "free"
    BY <1>3 DEF OwnersFit
  <2>2. \A s \in Sockets : sock'[s] \in {"connecting", "open"} =>
          mount'[owner[s]] = "mounted" /\ wsRef[owner[s]] = s /\ ~timer'[owner[s]]
    BY <1>2, <1>3 DEF OwnersFit
  <2>3. \A s \in Sockets : sock'[s] = "closing" => mount'[owner[s]] = "unmounted"
    BY <1>1, <1>2, <1>3 DEF OwnersFit
  <2>4. \A q \in Pages : mount'[q] = "new" => wsRef[q] = NoSocket /\ ~timer'[q] /\ ~connected[q]
    BY <1>2 DEF OwnersFit
  <2>5. \A q \in Pages : mount'[q] = "mounted" /\ wsRef[q] # NoSocket /\ sock'[wsRef[q]] # "free" =>
          owner[wsRef[q]] = q
    BY <1>2, <1>3 DEF OwnersFit
  <2> QED BY <1>1, <2>1, <2>2, <2>3, <2>4, <2>5 DEF OwnersFit
<1>6. ConnectedIsTrue'
  BY <1>1, <1>2, <1>3 DEF ConnectedIsTrue, OwnersFit
<1> QED BY <1>4, <1>5, <1>6

LEMMA OnopenKeeps == ASSUME SocketInv, NEW s \in Sockets, Onopen(s) PROVE SocketInv'
<1> USE DEF SocketInv, SocketTypeOK
<1>1. /\ sock[s] = "connecting" /\ sock' = [sock EXCEPT ![s] = "open"]
      /\ UNCHANGED <<mount, wsRef, timer, owner, bearer, token>>
  BY DEF Onopen
<1>2. owner[s] \in Pages /\ mount[owner[s]] = "mounted" /\ wsRef[owner[s]] = s
  BY <1>1 DEF OwnersFit
<1>3. connected' = [connected EXCEPT ![owner[s]] = TRUE]
  BY <1>2 DEF Onopen
<1>4. /\ sock'[s] = "open" /\ \A r \in Sockets : r # s => sock'[r] = sock[r]
      /\ connected'[owner[s]] /\ \A q \in Pages : q # owner[s] => connected'[q] = connected[q]
  BY <1>1, <1>2, <1>3
<1>5. SocketTypeOK'
  BY <1>1, <1>2, <1>3
<1>6. OwnersFit'
  BY <1>1, <1>2, <1>4 DEF OwnersFit
<1>7. ConnectedIsTrue'
  BY <1>1, <1>2, <1>4 DEF ConnectedIsTrue, OwnersFit
<1> QED BY <1>5, <1>6, <1>7

LEMMA OncloseKeeps == ASSUME SocketInv, NEW s \in Sockets, Onclose(s) PROVE SocketInv'
<1> USE DEF SocketInv, SocketTypeOK
<1> DEFINE p == owner[s]
<1>1. /\ sock[s] # "free" /\ sock' = [sock EXCEPT ![s] = "free"]
      /\ owner' = [owner EXCEPT ![s] = NoSocket]
      /\ UNCHANGED <<mount, wsRef, bearer, token>>
  BY DEF Onclose
<1>2. p \in Pages
  BY <1>1 DEF OwnersFit
<1>3. /\ sock'[s] = "free" /\ owner'[s] = NoSocket
      /\ \A r \in Sockets : r # s => sock'[r] = sock[r] /\ owner'[r] = owner[r]
  BY <1>1
<1>4. CASE mount[p] = "mounted"
  <2>1. connected' = [connected EXCEPT ![p] = FALSE] /\ timer' = [timer EXCEPT ![p] = TRUE]
    BY <1>4 DEF Onclose
  <2>2. /\ ~connected'[p] /\ timer'[p]
        /\ \A q \in Pages : q # p => connected'[q] = connected[q] /\ timer'[q] = timer[q]
    BY <1>2, <2>1
  <2>3. wsRef[p] = s
    BY <1>1, <1>4 DEF OwnersFit
  <2>4. SocketTypeOK'
    BY <1>1, <2>1
  <2>5. OwnersFit'
    <3>1. \A r \in Sockets : owner'[r] = NoSocket <=> sock'[r] = "free"
      BY <1>3 DEF OwnersFit
    <3>2. \A r \in Sockets : sock'[r] \in {"connecting", "open"} =>
            mount[owner'[r]] = "mounted" /\ wsRef[owner'[r]] = r /\ ~timer'[owner'[r]]
      BY <1>3, <2>2, <2>3 DEF OwnersFit
    <3>3. \A r \in Sockets : sock'[r] = "closing" => mount[owner'[r]] = "unmounted"
      BY <1>3 DEF OwnersFit
    <3>4. \A q \in Pages : mount[q] = "new" => wsRef[q] = NoSocket /\ ~timer'[q] /\ ~connected'[q]
      BY <1>4, <2>2 DEF OwnersFit
    <3>5. \A q \in Pages : mount[q] = "mounted" /\ wsRef[q] # NoSocket /\ sock'[wsRef[q]] # "free" =>
            owner'[wsRef[q]] = q
      BY <1>3 DEF OwnersFit
    <3> QED BY <1>1, <3>1, <3>2, <3>3, <3>4, <3>5 DEF OwnersFit
  <2>6. ConnectedIsTrue'
    BY <1>1, <1>3, <2>2, <2>3 DEF ConnectedIsTrue, OwnersFit
  <2> QED BY <2>4, <2>5, <2>6
<1>5. CASE mount[p] # "mounted"
  <2>1. UNCHANGED <<connected, timer>>
    BY <1>5 DEF Onclose
  <2>2. SocketTypeOK'
    BY <1>1, <2>1
  <2>3. OwnersFit'
    BY <1>1, <1>3, <2>1 DEF OwnersFit
  <2>4. ConnectedIsTrue'
    BY <1>1, <1>3, <1>5, <2>1 DEF ConnectedIsTrue, OwnersFit
  <2> QED BY <2>2, <2>3, <2>4
<1> QED BY <1>4, <1>5

LEMMA SocketStep == SocketInv /\ [SocketNext]_socketVars => SocketInv'
<1> SUFFICES ASSUME SocketInv, [SocketNext]_socketVars PROVE SocketInv'
  OBVIOUS
<1>1. ASSUME NEW p \in Pages, Mount(p) \/ Unmount(p) \/ Reconnect(p) PROVE SocketInv'
  BY <1>1, MountKeeps, UnmountKeeps, ReconnectKeeps
<1>2. ASSUME NEW s \in Sockets, Onopen(s) \/ Onclose(s) PROVE SocketInv'
  BY <1>2, OnopenKeeps, OncloseKeeps
<1>3. CASE TokenChanges \/ UNCHANGED socketVars
  <2>1. /\ UNCHANGED <<mount, wsRef, timer, connected, sock, owner, bearer>>
        /\ token' \in Tokens
    BY <1>3 DEF TokenChanges, socketVars, Tokens, SocketInv, SocketTypeOK
  <2> QED BY <2>1 DEF SocketInv, SocketTypeOK, OwnersFit, ConnectedIsTrue
<1> QED BY <1>1, <1>2, <1>3 DEF SocketNext

\* Mounts, sockets and timers keep their types.
THEOREM SocketTypeCorrect == SocketSpec => []SocketTypeOK
<1>1. SocketInv => SocketTypeOK
  BY DEF SocketInv
<1> QED BY <1>1, SocketStarts, SocketStep, PTL DEF SocketSpec

\* Whatever pages come and go, and whenever the network or the token fails: a socket in use is held by the page that
\* opened it, so that the cleanup closes it, no timer opens a second one, and a page says what is true of it.
THEOREM SocketsAreSound == SocketSpec => []SocketsSound
<1>1. SocketInv => SocketsSound
  BY DEF SocketInv, OwnersFit, SocketTypeOK, SocketsSound, NoOrphanSocket
<1> QED BY <1>1, SocketStarts, SocketStep, PTL DEF SocketSpec

HIDE SocketAssumption

----------------------------------------------------------------------------
(* The bell and its toasts *)

USE BadgeAssumption

\* Alerts come in the order of their seconds.  An answer holds every alert that is open and not younger than one
\* that was announced, and the bell kept its number.
BellFits ==
  /\ \A a, b \in All : a <= b => triggeredAt[a] <= triggeredAt[b]
  /\ \A a \in 1 .. MaxAlerts : announced[a] # 0 => a \in All
  /\ \A i \in DOMAIN toasts : announced[toasts[i]] # 0
  /\ data = NoData => prevCount = 0
  /\ data # NoData =>
       /\ prevCount = Cardinality(Range(data))
       /\ IsFiniteSet(Range(data))
       /\ \A a \in All : announced[a] # 0 => open \cap (1 .. a) \subseteq Range(data)

BadgeInv == BadgeTypeOK /\ BellFits /\ AnnouncedOnce

\* Nothing has come, nothing is shown.
LEMMA BadgeStarts == BadgeInit => BadgeInv
<1> SUFFICES ASSUME BadgeInit PROVE BadgeInv
  OBVIOUS
<1>1. /\ Len(triggeredAt) = 0 /\ triggeredAt \in Seq(0 .. second)
      /\ Len(toasts) = 0 /\ toasts \in Seq(All) /\ DOMAIN toasts = {}
  BY EmptySeq DEF BadgeInit
<1>2. announced \in [1 .. MaxAlerts -> 0 .. 2]
  BY DEF BadgeInit
<1>3. second \in 0 .. MaxSeconds /\ prevCount \in 0 .. MaxAlerts
  BY DEF BadgeInit
<1>4. BadgeTypeOK
  BY <1>1, <1>2, <1>3 DEF BadgeInit, BadgeTypeOK
<1>5. All = {}
  BY <1>1 DEF All
<1>6. BellFits
  BY <1>1, <1>5 DEF BadgeInit, BellFits
<1>7. AnnouncedOnce
  BY <1>1, <1>5 DEF AnnouncedOnce
<1> QED BY <1>4, <1>6, <1>7 DEF BadgeInv

\* A listing holds each open alert once, and there are no more of them than alerts.
LEMMA ListingFacts ==
  ASSUME BadgeTypeOK, NEW list \in Listings
  PROVE  /\ list \in Seq(All) /\ Len(list) = Cardinality(open) /\ Len(list) \in 0 .. MaxAlerts
         /\ DOMAIN list = 1 .. Len(list) /\ Range(list) = open /\ IsFiniteSet(open)
         /\ list # NoData
<1>1. Len(triggeredAt) \in Nat /\ Len(triggeredAt) <= MaxAlerts
  BY LenProperties DEF BadgeTypeOK
<1>2. IsFiniteSet(All) /\ Cardinality(All) = Len(triggeredAt)
  <2>1. IsFiniteSet(1 .. Len(triggeredAt))
        /\ Cardinality(1 .. Len(triggeredAt)) = (IF 1 > Len(triggeredAt) THEN 0 ELSE Len(triggeredAt) - 1 + 1)
    <3> DEFINE n == Len(triggeredAt)
    <3>1. 1 \in Int /\ n \in Int
      BY <1>1
    <3> HIDE DEF n
    <3>2. IsFiniteSet(1 .. n) /\ Cardinality(1 .. n) = (IF 1 > n THEN 0 ELSE n - 1 + 1)
      BY <3>1, FS_Interval
    <3> QED BY <3>2 DEF n
  <2> QED BY <1>1, <2>1 DEF All
<1>3. IsFiniteSet(open) /\ Cardinality(open) <= Len(triggeredAt)
  BY <1>2, FS_Subset DEF BadgeTypeOK
<1>4. Cardinality(open) \in Nat
  BY <1>3, FS_CardinalityType
<1>5. list \in [1 .. Cardinality(open) -> All] /\ Range(list) = open
  BY DEF Listings, BadgeTypeOK
<1>6. list \in Seq(All)
  BY <1>4, <1>5, SeqDef
<1>7. DOMAIN list = 1 .. Len(list) /\ Len(list) \in Nat
  BY <1>6, LenProperties
<1>8. Len(list) = Cardinality(open)
  BY <1>4, <1>5, <1>7
<1>9. list # NoData
  <2> SUFFICES ASSUME list = NoData PROVE FALSE
    OBVIOUS
  <2>1. list[1] = 0 /\ 1 \in DOMAIN list
    BY DEF NoData
  <2> QED BY <1>5, <2>1 DEF All
<1> QED BY <1>1, <1>3, <1>4, <1>5, <1>6, <1>7, <1>8, <1>9

\* The first of a listing comes before all others.
LEMMA HeadFirst ==
  ASSUME BadgeTypeOK, NEW list \in Listings, Len(list) > 0
  PROVE  /\ Head(list) \in open /\ Head(list) \in All
         /\ \A b \in open : b = Head(list) \/ Before(Head(list), b)
<1>1. list \in Seq(All) /\ DOMAIN list = 1 .. Len(list) /\ Range(list) = open /\ Len(list) \in Nat
  BY ListingFacts
<1>2. 1 \in DOMAIN list
  BY <1>1
<1>3. Head(list) = list[1]
  BY <1>1, <1>2
<1>4. list[1] \in open
  BY <1>1, <1>2 DEF Range
<1>5. ASSUME NEW b \in open PROVE b = list[1] \/ Before(list[1], b)
  <2>1. PICK j \in DOMAIN list : list[j] = b
    BY <1>1 DEF Range
  <2>2. j = 1 \/ 1 < j
    BY <1>1
  <2> QED BY <1>2, <2>1, <2>2 DEF Listings
<1> QED BY <1>3, <1>4, <1>5 DEF BadgeTypeOK

\* When the count has grown, the first of the list is younger than all that was announced before,
\* but for those that share their second with another.
LEMMA NewestFirst ==
  ASSUME BadgeInv, NEW list \in Listings, Len(list) > prevCount, prevCount > 0,
         NEW a \in All, announced[a] # 0, Alone(a)
  PROVE  a < Head(list)
<1> DEFINE h == Head(list)
<1> USE DEF BadgeInv
<1>1. /\ h \in open /\ h \in All
      /\ \A b \in open : b = h \/ Before(h, b)
  BY HeadFirst DEF BadgeTypeOK
<1> HIDE DEF h
<1>2. /\ data # NoData /\ prevCount = Cardinality(Range(data)) /\ IsFiniteSet(Range(data))
      /\ open \cap (1 .. a) \subseteq Range(data)
  BY DEF BellFits
<1>3. PICK b \in open : b \notin Range(data)
  <2> SUFFICES ASSUME open \subseteq Range(data) PROVE FALSE
    OBVIOUS
  <2>1. Cardinality(open) <= Cardinality(Range(data))
    BY <1>2, FS_Subset
  <2>2. Len(list) = Cardinality(open) /\ Len(list) \in Nat /\ prevCount \in Nat
    BY ListingFacts DEF BadgeTypeOK
  <2> QED BY <1>2, <2>1, <2>2
<1>4. /\ Len(triggeredAt) \in Nat /\ All = 1 .. Len(triggeredAt)
      /\ b \in All /\ \A c \in All : triggeredAt[c] \in Nat /\ c \in Nat
  <2>1. Len(triggeredAt) \in Nat /\ All = 1 .. Len(triggeredAt)
    BY LenProperties DEF BadgeTypeOK, All
  <2>2. \A c \in All : triggeredAt[c] \in 0 .. second
    BY <2>1, ElementOfSeq DEF BadgeTypeOK
  <2> QED BY <2>1, <2>2 DEF BadgeTypeOK
<1>5. a < b
  BY <1>2, <1>3, <1>4
<1>6. SUFFICES ASSUME h <= a PROVE FALSE
  BY <1>1, <1>4 DEF h
<1>7. Before(h, b)
  BY <1>1, <1>4, <1>5, <1>6
<1>8. triggeredAt[h] <= triggeredAt[a] /\ triggeredAt[a] <= triggeredAt[b]
  BY <1>1, <1>4, <1>5, <1>6 DEF BellFits
<1>9. triggeredAt[b] = triggeredAt[a]
  BY <1>1, <1>4, <1>7, <1>8 DEF Before
<1> QED BY <1>4, <1>5, <1>9 DEF Alone

\* The toasts that stay when one more comes, or when one goes, in their order.
Thinned(q, r) ==
  /\ r \in Seq(All) /\ Len(r) <= Len(q)
  /\ \A i \in 1 .. Len(r) : \E k \in 1 .. Len(q) : r[i] = q[k]
  /\ \A i, j \in 1 .. Len(r) : i < j =>
       \E k, l \in 1 .. Len(q) : k < l /\ r[i] = q[k] /\ r[j] = q[l]

LEMMA TailThins ==
  ASSUME NEW q \in Seq(All), q # << >>
  PROVE  Thinned(q, Tail(q)) /\ Len(Tail(q)) = Len(q) - 1
<1>1. /\ Tail(q) \in Seq(All) /\ Len(Tail(q)) = Len(q) - 1 /\ Len(q) \in Nat
      /\ \A i \in 1 .. Len(Tail(q)) : Tail(q)[i] = q[i + 1]
  BY HeadTailProperties, LenProperties
<1> DEFINE r == Tail(q)
           m == Len(r)
           n == Len(q)
<1>2. /\ m = n - 1 /\ n \in Nat /\ \A i \in 1 .. m : r[i] = q[i + 1]
      /\ r \in Seq(All)
  BY <1>1
<1> HIDE DEF r, m, n
<1>3. \A i \in 1 .. m : i + 1 \in 1 .. n
  BY <1>2
<1>4. \A i \in 1 .. m : \E k \in 1 .. n : r[i] = q[k]
  BY <1>2, <1>3
<1>5. ASSUME NEW i \in 1 .. m, NEW j \in 1 .. m, i < j
      PROVE  \E k, l \in 1 .. n : k < l /\ r[i] = q[k] /\ r[j] = q[l]
  <2>1. i + 1 < j + 1 /\ i + 1 \in 1 .. n /\ j + 1 \in 1 .. n
    BY <1>3, <1>5
  <2> QED BY <1>2, <2>1
<1>6. m <= n
  BY <1>2
<1> QED BY <1>1, <1>2, <1>4, <1>5, <1>6 DEF Thinned, r, m, n

LEMMA RemoveThins ==
  ASSUME NEW q \in Seq(All), NEW p \in DOMAIN q
  PROVE  Thinned(q, RemoveAt(q, p))
<1> DEFINE n == Len(q)
           a == SubSeq(q, 1, p - 1)
           b == SubSeq(q, p + 1, n)
           r == RemoveAt(q, p)
           m == Len(r)
<1>1. n \in Nat /\ p \in 1 .. n /\ \A i \in 1 .. n : q[i] \in All
  BY LenProperties, ElementOfSeq
<1>2. p \in Int /\ p - 1 \in Int /\ p + 1 \in Int /\ n \in Int
  BY <1>1
<1>3. /\ a \in Seq(All) /\ Len(a) = (IF 1 <= p - 1 THEN p - 1 - 1 + 1 ELSE 0)
      /\ \A i \in 1 .. (p - 1) - 1 + 1 : a[i] = q[1 + i - 1]
  <2>1. \A i \in 1 .. p - 1 : q[i] \in All
    BY <1>1
  <2> HIDE DEF n
  <2> QED BY <1>2, <2>1, SubSeqProperties
<1>4. /\ b \in Seq(All) /\ Len(b) = (IF p + 1 <= n THEN n - (p + 1) + 1 ELSE 0)
      /\ \A i \in 1 .. n - (p + 1) + 1 : b[i] = q[p + 1 + i - 1]
  <2>1. \A i \in p + 1 .. n : q[i] \in All
    BY <1>1
  <2> HIDE DEF n
  <2> QED BY <1>2, <2>1, SubSeqProperties
<1>5. /\ r \in Seq(All) /\ m = Len(a) + Len(b)
      /\ \A i \in 1 .. Len(a) + Len(b) : r[i] = IF i <= Len(a) THEN a[i] ELSE b[i - Len(a)]
  BY <1>3, <1>4, ConcatProperties DEF RemoveAt
<1> HIDE DEF n, a, b, r
<1> HIDE DEF m
<1>6. Len(a) = p - 1 /\ Len(b) = n - p /\ m = n - 1
  <2>1. Len(a) = (IF 1 <= p - 1 THEN p - 1 - 1 + 1 ELSE 0) /\ p \in 1 .. n /\ n \in Nat
    BY <1>1, <1>3
  <2>2. Len(a) = p - 1
    BY <2>1
  <2>3. Len(b) = (IF p + 1 <= n THEN n - (p + 1) + 1 ELSE 0)
    BY <1>4
  <2>4. Len(b) = n - p
    BY <2>1, <2>3
  <2>5. m = (p - 1) + (n - p)
    BY <1>5, <2>2, <2>4
  <2>6. m = n - 1
    BY <1>2, <2>5, SMTT(30)
  <2> QED BY <2>2, <2>4, <2>6
<1>7. \A i \in 1 .. m : r[i] = IF i < p THEN q[i] ELSE q[i + 1]
  <2> SUFFICES ASSUME NEW i \in 1 .. m PROVE r[i] = IF i < p THEN q[i] ELSE q[i + 1]
    OBVIOUS
  <2>1. CASE i < p
    <3>1. i \in 1 .. (p - 1) - 1 + 1 /\ i <= Len(a) /\ i \in 1 .. Len(a) + Len(b) /\ 1 + i - 1 = i
      BY <1>1, <1>6, <2>1
    <3> QED BY <1>3, <1>5, <2>1, <3>1
  <2>2. CASE ~(i < p)
    <3> DEFINE k == i - Len(a)
    <3>1. /\ k \in 1 .. n - (p + 1) + 1 /\ ~(i <= Len(a)) /\ i \in 1 .. Len(a) + Len(b)
          /\ p + 1 + k - 1 = i + 1
      <4>1. n \in Int /\ p \in Int /\ i \in Int /\ 1 <= p /\ p <= i /\ i <= n - 1
        BY <1>1, <1>6, <2>2
      <4>2. k = i - (p - 1) /\ Len(a) = p - 1 /\ Len(a) + Len(b) = n - 1
        BY <1>1, <1>6
      <4> HIDE DEF k
      <4>3. k \in Int /\ 1 <= k /\ k <= n - (p + 1) + 1 /\ p + 1 + k - 1 = i + 1
        <5>1. k = i - (p - 1)
          BY <4>2
        <5> QED BY <4>1, <5>1
      <4>4. ~(i <= Len(a)) /\ i \in 1 .. Len(a) + Len(b)
        BY <4>1, <4>2
      <4> QED BY <4>1, <4>3, <4>4
    <3>2. r[i] = b[k]
      BY <1>5, <3>1
    <3> HIDE DEF k
    <3>3. b[k] = q[p + 1 + k - 1]
      BY <1>4, <3>1
    <3> QED BY <2>2, <3>1, <3>2, <3>3
  <2> QED BY <2>1, <2>2
<1>8. \A i \in 1 .. m : \E k \in 1 .. n : r[i] = q[k]
  <2> SUFFICES ASSUME NEW i \in 1 .. m PROVE \E k \in 1 .. n : r[i] = q[k]
    OBVIOUS
  <2>1. i \in 1 .. n /\ i + 1 \in 1 .. n
    BY <1>1, <1>6
  <2> QED BY <1>7, <2>1
<1>9. ASSUME NEW i \in 1 .. m, NEW j \in 1 .. m, i < j
      PROVE  \E k, l \in 1 .. n : k < l /\ r[i] = q[k] /\ r[j] = q[l]
  <2>1. i \in 1 .. n /\ i + 1 \in 1 .. n /\ j \in 1 .. n /\ j + 1 \in 1 .. n
    BY <1>1, <1>6
  <2>2. CASE j < p
    <3>1. i < p
      BY <1>1, <1>9, <2>1, <2>2
    <3> QED BY <1>7, <1>9, <2>1, <2>2, <3>1
  <2>3. CASE ~(j < p) /\ i < p
    <3>1. i < j + 1 /\ r[i] = q[i] /\ r[j] = q[j + 1]
      BY <1>7, <1>9, <2>1, <2>3
    <3> QED BY <2>1, <3>1
  <2>4. CASE ~(j < p) /\ ~(i < p)
    <3>1. i + 1 < j + 1 /\ r[i] = q[i + 1] /\ r[j] = q[j + 1]
      BY <1>7, <1>9, <2>1, <2>4
    <3> QED BY <2>1, <3>1
  <2> QED BY <2>2, <2>3, <2>4
<1>10. m <= n
  BY <1>1, <1>6
<1> QED BY <1>5, <1>8, <1>9, <1>10 DEF Thinned, m, n, r

\* What happens to the table: alerts are added, and alone in its second a later alert was before.
LEMMA TableSteps ==
  ASSUME BadgeInv, NEW t, triggeredAt' = Append(triggeredAt, t), t = second,
         Len(triggeredAt) < MaxAlerts
  PROVE  /\ triggeredAt' \in Seq(0 .. second) /\ Len(triggeredAt') = Len(triggeredAt) + 1
         /\ Len(triggeredAt) \in Nat
         /\ All \subseteq All' /\ All' = All \cup {Len(triggeredAt) + 1}
         /\ \A a \in All : triggeredAt'[a] = triggeredAt[a] /\ (Alone(a)' => Alone(a))
         /\ \A a, b \in All' : a <= b => triggeredAt'[a] <= triggeredAt'[b]
<1> USE DEF BadgeInv
<1> DEFINE n == Len(triggeredAt)
<1>1. second \in Nat /\ second \in 0 .. second /\ triggeredAt \in Seq(0 .. second)
  BY DEF BadgeTypeOK
<1>2. /\ triggeredAt' \in Seq(0 .. second) /\ Len(triggeredAt') = n + 1 /\ n \in Nat
      /\ \A i \in 1 .. n : triggeredAt'[i] = triggeredAt[i]
      /\ triggeredAt'[n + 1] = second
  BY <1>1, AppendProperties, LenProperties
<1>3. \A i \in 1 .. n : triggeredAt[i] \in 0 .. second
  BY <1>1, ElementOfSeq
<1>4. All = 1 .. n /\ All' = 1 .. n + 1
  BY <1>2 DEF All
<1> HIDE DEF n
<1>clock. second <= second /\ \A x \in 0 .. second : x <= second
  <2>1. second \in Nat
    BY <1>1
  <2> HIDE DEF BadgeInv
  <2> QED BY <2>1
<1>5. All \subseteq All' /\ All' = All \cup {n + 1}
  BY <1>2, <1>4
<1>6. \A a \in All : Alone(a)' => Alone(a)
  BY <1>2, <1>4, <1>5 DEF Alone
<1>7. ASSUME NEW a \in All', NEW b \in All', a <= b PROVE triggeredAt'[a] <= triggeredAt'[b]
  <2>1. CASE b = n + 1
    <3>1. triggeredAt'[b] = second
      BY <1>2, <2>1
    <3>2. CASE a = n + 1
      <4>1. triggeredAt'[a] = second
        BY <1>2, <3>2
      <4> QED BY <1>clock, <3>1, <4>1, Zenon
    <3>3. CASE a # n + 1
      <4>1. a \in 1 .. n
        BY <1>4, <1>5, <3>3
      <4>2. triggeredAt'[a] = triggeredAt[a] /\ triggeredAt[a] \in 0 .. second
        BY <1>2, <1>3, <4>1
      <4> QED BY <1>clock, <3>1, <4>2, Zenon
    <3> QED BY <3>2, <3>3
  <2>2. CASE b # n + 1
    <3>1. a \in All /\ b \in All
      BY <1>2, <1>4, <1>7, <2>2
    <3> QED BY <1>2, <1>4, <1>7, <3>1 DEF BellFits
  <2> QED BY <2>1, <2>2
<1> QED BY <1>2, <1>4, <1>5, <1>6, <1>7 DEF n

LEMMA AlertComesKeeps == ASSUME BadgeInv, AlertComes PROVE BadgeInv'
<1> USE DEF BadgeInv
<1>1. /\ triggeredAt' = Append(triggeredAt, second) /\ Len(triggeredAt) < MaxAlerts
      /\ open' = open \cup {Len(triggeredAt) + 1}
      /\ UNCHANGED <<second, data, prevCount, toasts, announced>>
  BY DEF AlertComes
<1>2. /\ triggeredAt' \in Seq(0 .. second) /\ Len(triggeredAt') = Len(triggeredAt) + 1
      /\ Len(triggeredAt) \in Nat
      /\ All \subseteq All' /\ All' = All \cup {Len(triggeredAt) + 1}
      /\ \A a \in All : triggeredAt'[a] = triggeredAt[a] /\ (Alone(a)' => Alone(a))
      /\ \A a, b \in All' : a <= b => triggeredAt'[a] <= triggeredAt'[b]
  BY <1>1, TableSteps
<1>3. toasts \in Seq(All') /\ (data = NoData \/ data \in Seq(All'))
  BY <1>2, SeqMonotonic DEF BadgeTypeOK
<1>4. BadgeTypeOK'
  <2>1. open' \subseteq All' /\ Len(triggeredAt') <= MaxAlerts
    BY <1>1, <1>2 DEF BadgeTypeOK
  <2> QED BY <1>1, <1>2, <1>3, <2>1 DEF BadgeTypeOK
<1>5. \A i \in DOMAIN toasts : toasts[i] \in All
  BY LenProperties, ElementOfSeq DEF BadgeTypeOK
<1>6. \A a \in 1 .. MaxAlerts : announced[a] # 0 => a \in All
  BY DEF BellFits
<1>7. BellFits'
  <2>1. ASSUME data # NoData, NEW a \in All', announced[a] # 0
        PROVE  open' \cap (1 .. a) \subseteq Range(data)
    <3>1. a \in 1 .. Len(triggeredAt) /\ a \in All
      <4>1. a \in 1 .. MaxAlerts
        BY <1>1, <1>2 DEF All
      <4> QED BY <1>6, <2>1, <4>1 DEF All
    <3>2. open' \cap (1 .. a) = open \cap (1 .. a)
      BY <1>1, <1>2, <3>1
    <3> QED BY <2>1, <3>1, <3>2 DEF BellFits
  <2>2. \A a \in 1 .. MaxAlerts : announced'[a] # 0 => a \in All'
    BY <1>1, <1>2, <1>6
  <2> QED BY <1>1, <1>2, <2>1, <2>2 DEF BellFits
<1>8. AnnouncedOnce'
  <2>1. ASSUME NEW a \in All', announced[a] = 2 PROVE ~Alone(a)'
    <3>1. a \in All
      <4>1. a \in 1 .. MaxAlerts
        BY <1>1, <1>2 DEF All
      <4> QED BY <1>6, <2>1, <4>1
    <3> QED BY <1>2, <2>1, <3>1 DEF AnnouncedOnce
  <2>2. ASSUME NEW i \in DOMAIN toasts, NEW j \in DOMAIN toasts, i < j, Alone(toasts[i])'
        PROVE  toasts[i] < toasts[j]
    <3>1. Alone(toasts[i])
      BY <1>1, <1>2, <1>5, <2>2
    <3> QED BY <2>2, <3>1 DEF AnnouncedOnce
  <2> QED BY <1>1, <2>1, <2>2 DEF AnnouncedOnce, Alone
<1> QED BY <1>4, <1>7, <1>8

\* An alert more on the page leaves what was announced in order.
LEMMA AnnounceKeeps ==
  ASSUME BadgeInv, NEW list \in Listings, Announce(list),
         UNCHANGED <<triggeredAt, open, second>>
  PROVE  /\ toasts' \in Seq(All) /\ Len(toasts') <= MaxToasts
         /\ announced' \in [1 .. MaxAlerts -> 0 .. 2]
         /\ \A a \in 1 .. MaxAlerts : announced'[a] # 0 => a \in All
         /\ \A i \in DOMAIN toasts' : announced'[toasts'[i]] # 0
         /\ AnnouncedOnce'
<1> USE DEF BadgeInv
<1>1. toasts \in Seq(All) /\ Len(toasts) \in Nat /\ DOMAIN toasts = 1 .. Len(toasts)
      /\ \A i \in 1 .. Len(toasts) : toasts[i] \in All
  BY LenProperties, ElementOfSeq DEF BadgeTypeOK
<1>2. CASE ~(Len(list) > prevCount /\ prevCount > 0)
  <2>1. UNCHANGED <<toasts, announced>>
    BY <1>2 DEF Announce
  <2>2. AnnouncedOnce'
    BY <2>1 DEF AnnouncedOnce, All, Alone
  <2> QED BY <2>1, <2>2 DEF BadgeTypeOK, BellFits
<1>3. CASE Len(list) > prevCount /\ prevCount > 0
  <2> DEFINE h == Head(list)
             kept == KeptToasts
             n == Len(kept)
  <2>1. /\ toasts' = Append(kept, h)
        /\ announced' = [announced EXCEPT ![h] = IF @ = 0 THEN 1 ELSE 2]
    BY <1>3 DEF Announce
  <2>2. h \in All /\ h \in 1 .. MaxAlerts
    <3>1. Len(list) > 0
      BY <1>3, ListingFacts DEF BadgeTypeOK
    <3>2. h \in All
      BY <3>1, HeadFirst
    <3>3. Len(triggeredAt) \in Nat /\ Len(triggeredAt) <= MaxAlerts
      BY LenProperties DEF BadgeTypeOK
    <3> QED BY <3>2, <3>3 DEF All
  <2>3. /\ kept \in Seq(All) /\ n \in Nat /\ n + 1 <= MaxToasts
        /\ \A i \in 1 .. n : \E k \in 1 .. Len(toasts) : kept[i] = toasts[k]
        /\ \A i, j \in 1 .. n : i < j =>
             \E k, l \in 1 .. Len(toasts) : k < l /\ kept[i] = toasts[k] /\ kept[j] = toasts[l]
    <3>1. CASE Len(toasts) < MaxToasts
      <4>1. kept = toasts
        BY <3>1 DEF KeptToasts
      <4> QED BY <1>1, <3>1, <4>1
    <3>2. CASE ~(Len(toasts) < MaxToasts)
      <4>1. toasts # << >>
        BY <1>1, <3>2, EmptySeq
      <4>2. Thinned(toasts, Tail(toasts)) /\ Len(Tail(toasts)) = Len(toasts) - 1
        BY <1>1, <4>1, TailThins
      <4>3. kept = Tail(toasts)
        BY <3>2 DEF KeptToasts
      <4>4. n = Len(toasts) - 1 /\ Len(toasts) <= MaxToasts /\ Len(toasts) # 0
        BY <3>2, <4>2, <4>3 DEF BadgeTypeOK
      <4>5. n \in Nat /\ n + 1 <= MaxToasts
        BY <1>1, <4>4
      <4> QED BY <4>2, <4>3, <4>5 DEF Thinned
    <3> QED BY <3>1, <3>2
  <2> HIDE DEF h, kept, n
  <2>4. /\ toasts' \in Seq(All) /\ Len(toasts') = n + 1 /\ DOMAIN toasts' = 1 .. n + 1
        /\ \A i \in 1 .. n : toasts'[i] = kept[i]
        /\ toasts'[n + 1] = h
    <3>1. /\ toasts' \in Seq(All) /\ Len(toasts') = n + 1
          /\ \A i \in 1 .. n : toasts'[i] = kept[i]
          /\ toasts'[n + 1] = h
      BY <2>1, <2>2, <2>3, AppendProperties DEF n
    <3> QED BY <3>1, LenProperties
  <2>5. /\ announced' \in [1 .. MaxAlerts -> 0 .. 2] /\ announced'[h] # 0
        /\ announced'[h] = 2 => announced[h] # 0
        /\ \A a \in 1 .. MaxAlerts : a # h => announced'[a] = announced[a]
        /\ \A a \in 1 .. MaxAlerts : announced[a] # 0 => announced'[a] # 0
    BY <2>1, <2>2 DEF BadgeTypeOK
  <2>6. All \subseteq 1 .. MaxAlerts
    <3>1. Len(triggeredAt) \in Nat /\ Len(triggeredAt) <= MaxAlerts
      BY LenProperties DEF BadgeTypeOK
    <3> QED BY <3>1 DEF All
  <2>7. ASSUME NEW i \in 1 .. n PROVE kept[i] \in All /\ announced[kept[i]] # 0
    <3>1. PICK k \in 1 .. Len(toasts) : kept[i] = toasts[k]
      BY <2>3
    <3>2. toasts[k] \in All /\ announced[toasts[k]] # 0
      BY <1>1, <3>1 DEF BellFits
    <3> QED BY <3>1, <3>2
  <2>8. ASSUME NEW i \in 1 .. n + 1 PROVE announced'[toasts'[i]] # 0
    <3>1. CASE i = n + 1
      BY <2>4, <2>5, <3>1
    <3>2. CASE i # n + 1
      <4>1. i \in 1 .. n
        BY <2>3, <3>2
      <4>2. toasts'[i] = kept[i] /\ kept[i] \in 1 .. MaxAlerts /\ announced[kept[i]] # 0
        BY <2>4, <2>6, <2>7, <4>1
      <4> QED BY <2>5, <4>2
    <3> QED BY <3>1, <3>2
  <2>9. \A a \in All : announced[a] # 0 /\ Alone(a) => a < h
    BY <1>3, NewestFirst DEF h
  <2>10. \A a \in All : announced'[a] = 2 => ~Alone(a)
    <3> SUFFICES ASSUME NEW a \in All, announced'[a] = 2 PROVE ~Alone(a)
      OBVIOUS
    <3>1. CASE a = h
      <4>1. announced[h] # 0 /\ h \in Int
        BY <2>2, <2>5, <3>1
      <4> QED BY <2>2, <2>9, <3>1, <4>1
    <3>2. CASE a # h
      <4>1. announced[a] = 2
        BY <2>5, <2>6, <3>2
      <4> QED BY <4>1 DEF AnnouncedOnce
    <3> QED BY <3>1, <3>2
  <2>11. ASSUME NEW i \in 1 .. n + 1, NEW j \in 1 .. n + 1, i < j, Alone(toasts'[i])
         PROVE  toasts'[i] < toasts'[j]
    <3>1. i \in 1 .. n
      BY <2>3, <2>11
    <3>2. CASE j = n + 1
      BY <2>4, <2>7, <2>9, <2>11, <3>1, <3>2
    <3>3. CASE j # n + 1
      <4>1. j \in 1 .. n
        BY <2>3, <3>3
      <4>2. PICK k \in 1 .. Len(toasts), l \in 1 .. Len(toasts) :
              k < l /\ kept[i] = toasts[k] /\ kept[j] = toasts[l]
        BY <2>3, <2>11, <3>1, <4>1
      <4> QED BY <1>1, <2>4, <2>11, <3>1, <4>1, <4>2 DEF AnnouncedOnce
    <3> QED BY <3>2, <3>3
  <2>12. AnnouncedOnce'
    BY <2>4, <2>10, <2>11 DEF AnnouncedOnce, All, Alone
  <2>13. \A a \in 1 .. MaxAlerts : announced'[a] # 0 => a \in All
    BY <2>2, <2>5 DEF BellFits
  <2>14. Len(toasts') <= MaxToasts
    BY <2>3, <2>4
  <2> QED BY <2>4, <2>5, <2>8, <2>12, <2>13, <2>14
<1> QED BY <1>2, <1>3

LEMMA PollKeeps == ASSUME BadgeInv, Poll PROVE BadgeInv'
<1> USE DEF BadgeInv
<1>1. PICK list \in Listings : data' = list /\ Announce(list) /\ prevCount' = Len(list)
  BY DEF Poll
<1>2. UNCHANGED <<triggeredAt, open, second>> /\ All' = All
  BY DEF Poll, All
<1>3. /\ list \in Seq(All) /\ Len(list) = Cardinality(open) /\ Len(list) \in 0 .. MaxAlerts
      /\ Range(list) = open /\ IsFiniteSet(open) /\ list # NoData
  BY ListingFacts
<1>4. /\ toasts' \in Seq(All) /\ Len(toasts') <= MaxToasts
      /\ announced' \in [1 .. MaxAlerts -> 0 .. 2]
      /\ \A a \in 1 .. MaxAlerts : announced'[a] # 0 => a \in All
      /\ \A i \in DOMAIN toasts' : announced'[toasts'[i]] # 0
      /\ AnnouncedOnce'
  BY <1>1, <1>2, AnnounceKeeps
<1>5. BadgeTypeOK'
  BY <1>1, <1>2, <1>3, <1>4 DEF BadgeTypeOK
<1>6. BellFits'
  <2>1. /\ data' # NoData /\ prevCount' = Cardinality(Range(data')) /\ IsFiniteSet(Range(data'))
        /\ \A a \in All' : open' \cap (1 .. a) \subseteq Range(data')
    BY <1>1, <1>2, <1>3
  <2>2. \A a, b \in All' : a <= b => triggeredAt'[a] <= triggeredAt'[b]
    BY <1>2 DEF BellFits
  <2> QED BY <1>2, <1>4, <2>1, <2>2 DEF BellFits
<1> QED BY <1>4, <1>5, <1>6

LEMMA DismissKeeps == ASSUME BadgeInv, Dismiss PROVE BadgeInv'
<1> USE DEF BadgeInv
<1>1. PICK p \in DOMAIN toasts : toasts' = RemoveAt(toasts, p)
  BY DEF Dismiss
<1>2. UNCHANGED <<triggeredAt, open, second, data, prevCount, announced>> /\ All' = All
  BY DEF Dismiss, All
<1>3. Thinned(toasts, toasts')
  BY <1>1, RemoveThins DEF BadgeTypeOK
<1>4. /\ DOMAIN toasts = 1 .. Len(toasts) /\ DOMAIN toasts' = 1 .. Len(toasts')
      /\ Len(toasts) \in Nat /\ Len(toasts') \in Nat
  BY <1>3, LenProperties DEF BadgeTypeOK, Thinned
<1>5. BadgeTypeOK'
  BY <1>2, <1>3, <1>4 DEF BadgeTypeOK, Thinned
<1>6. BellFits'
  <2>1. ASSUME NEW i \in DOMAIN toasts' PROVE announced[toasts'[i]] # 0
    <3>1. PICK k \in 1 .. Len(toasts) : toasts'[i] = toasts[k]
      BY <1>3, <1>4 DEF Thinned
    <3>2. announced[toasts[k]] # 0
      BY <1>4, <3>1 DEF BellFits
    <3> QED BY <3>1, <3>2
  <2> QED BY <1>2, <2>1 DEF BellFits
<1>7. AnnouncedOnce'
  <2>1. ASSUME NEW i \in DOMAIN toasts', NEW j \in DOMAIN toasts', i < j, Alone(toasts'[i])
        PROVE  toasts'[i] < toasts'[j]
    <3>1. PICK k \in 1 .. Len(toasts), l \in 1 .. Len(toasts) :
            k < l /\ toasts'[i] = toasts[k] /\ toasts'[j] = toasts[l]
      BY <1>3, <1>4, <2>1 DEF Thinned
    <3> QED BY <1>4, <2>1, <3>1 DEF AnnouncedOnce
  <2> QED BY <1>2, <2>1 DEF AnnouncedOnce, All, Alone
<1> QED BY <1>5, <1>6, <1>7

LEMMA BadgeStep == BadgeInv /\ [BadgeNext]_badgeVars => BadgeInv'
<1> SUFFICES ASSUME BadgeInv, [BadgeNext]_badgeVars PROVE BadgeInv'
  OBVIOUS
<1> USE DEF BadgeInv
<1>1. CASE AlertComes
  BY <1>1, AlertComesKeeps
<1>2. CASE AlertGoes
  <2>1. /\ open' \subseteq open
        /\ UNCHANGED <<triggeredAt, second, data, prevCount, toasts, announced>> /\ All' = All
    BY <1>2 DEF AlertGoes, All
  <2>2. BadgeTypeOK'
    BY <2>1 DEF BadgeTypeOK
  <2>3. BellFits'
    BY <2>1 DEF BellFits
  <2>4. AnnouncedOnce'
    BY <2>1 DEF AnnouncedOnce, Alone
  <2> QED BY <2>2, <2>3, <2>4
<1>3. CASE SecondPasses
  <2>1. /\ second' = second + 1 /\ second < MaxSeconds
        /\ UNCHANGED <<triggeredAt, open, data, prevCount, toasts, announced>> /\ All' = All
    BY <1>3 DEF SecondPasses, All
  <2>2. 0 .. second \subseteq 0 .. second' /\ second' \in 0 .. MaxSeconds
    BY <2>1 DEF BadgeTypeOK
  <2>3. triggeredAt' \in Seq(0 .. second')
    BY <2>1, <2>2, SeqMonotonic DEF BadgeTypeOK
  <2>4. BadgeTypeOK'
    BY <2>1, <2>2, <2>3 DEF BadgeTypeOK
  <2>5. BellFits'
    BY <2>1 DEF BellFits
  <2>6. AnnouncedOnce'
    BY <2>1 DEF AnnouncedOnce, Alone
  <2> QED BY <2>4, <2>5, <2>6
<1>4. CASE Poll
  BY <1>4, PollKeeps
<1>5. CASE Reload
  <2>1. /\ data' = NoData /\ prevCount' = 0 /\ toasts' = << >>
        /\ UNCHANGED <<triggeredAt, open, second, announced>> /\ All' = All
    BY <1>5 DEF Reload, All
  <2>2. toasts' \in Seq(All) /\ Len(toasts') = 0 /\ DOMAIN toasts' = {}
    BY <2>1, EmptySeq, LenProperties
  <2>3. Len(toasts') <= MaxToasts /\ prevCount' \in 0 .. MaxAlerts
    BY <2>1, <2>2
  <2>4. BadgeTypeOK'
    BY <2>1, <2>2, <2>3 DEF BadgeTypeOK
  <2>5. BellFits'
    BY <2>1, <2>2 DEF BellFits
  <2>6. AnnouncedOnce'
    BY <2>1, <2>2 DEF AnnouncedOnce, Alone
  <2> QED BY <2>4, <2>5, <2>6
<1>6. CASE Dismiss
  BY <1>6, DismissKeeps
<1>7. CASE UNCHANGED badgeVars
  <2>1. /\ UNCHANGED <<triggeredAt, open, second, data, prevCount, toasts, announced>> /\ All' = All
    BY <1>7 DEF badgeVars, All
  <2> QED BY <2>1 DEF BadgeTypeOK, BellFits, AnnouncedOnce, Alone
<1> QED BY <1>1, <1>2, <1>3, <1>4, <1>5, <1>6, <1>7 DEF BadgeNext

\* The table, the answers and the toasts keep their types.
THEOREM BadgeTypeCorrect == BadgeSpec => []BadgeTypeOK
<1>1. BadgeInv => BadgeTypeOK
  BY DEF BadgeInv
<1> QED BY <1>1, BadgeStarts, BadgeStep, PTL DEF BadgeSpec

\* The bell keeps a number only, and yet, for any alerts that come and go between two answers, it announces none
\* twice and its toasts stand in their order, unless some share a second.
THEOREM BellIsRight == BadgeSpec => []AnnouncedOnce
<1>1. BadgeInv => AnnouncedOnce
  BY DEF BadgeInv
<1> QED BY <1>1, BadgeStarts, BadgeStep, PTL DEF BadgeSpec

HIDE BadgeAssumption

=============================================================================
