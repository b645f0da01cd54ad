------------------------------ MODULE LogView ------------------------------
(***************************************************************************)
(* The live log in the browser (web/src/app/logs/page.tsx): the button,    *)
(* the websockets it opens, and the lines on the page.                     *)
(*                                                                         *)
(* close() returns at once and its close event comes later; a socket that  *)
(* is closing hands over no more messages.  The close handler is the same  *)
(* for every socket and clears live, whichever socket it comes from.       *)
(* Nothing closes the socket when the page is left.                        *)
(***************************************************************************)
EXTENDS Integers, Sequences, FiniteSets

CONSTANTS
  ViewSockets,   \* WebSocket objects (bounds the starts of a behaviour)
  NoView,        \* wsRef.current = null
  MaxShown,      \* 500 in the code
  MaxLogged      \* bound on the lines of the server

ASSUME ViewAssumption == MaxShown \in Nat /\ MaxLogged \in Nat

VARIABLES
  live, liveEntries,
  viewRef,    \* wsRef.current
  logged,     \* lines the server has sent to every tail so far
  wsState,    \* readyState
  pos,        \* the last line a socket has handed over
  left,       \* sockets of a page that has been left
  crossed     \* history: a close event came when a later socket was in use

viewVars == <<live, liveEntries, viewRef, logged, wsState, pos, left, crossed>>

ViewTypeOK ==
  /\ live \in BOOLEAN /\ crossed \in BOOLEAN
  /\ liveEntries \in Seq(1 .. MaxLogged) /\ Len(liveEntries) <= MaxShown
  /\ viewRef \in ViewSockets \cup {NoView}
  /\ logged \in 0 .. MaxLogged
  /\ wsState \in [ViewSockets -> {"new", "open", "closing", "closed"}]
  /\ pos \in [ViewSockets -> 0 .. logged]
  /\ left \subseteq ViewSockets

ViewInit ==
  /\ live = FALSE /\ liveEntries = << >> /\ viewRef = NoView
  /\ logged = 0 /\ wsState = [s \in ViewSockets |-> "new"]
  /\ pos = [s \in ViewSockets |-> 0]
  /\ left = {} /\ crossed = FALSE

\* startLive, with a token: the old lines go, the old socket does not.
StartLive(s) ==
  /\ ~live /\ wsState[s] = "new"
  /\ viewRef' = s /\ live' = TRUE /\ liveEntries' = << >>
  /\ wsState' = [wsState EXCEPT ![s] = "open"]
  /\ pos' = [pos EXCEPT ![s] = logged]
  /\ UNCHANGED <<logged, left, crossed>>

StopLive_NoClose ==
  /\ live
  /\ viewRef' = NoView /\ live' = FALSE
  /\ UNCHANGED <<liveEntries, logged, wsState, pos, left, crossed>>
StopLive ==
  /\ live
  /\ wsState' = [s \in ViewSockets |->
                   IF s = viewRef /\ wsState[s] = "open" THEN "closing" ELSE wsState[s]]
  /\ viewRef' = NoView /\ live' = FALSE
  /\ UNCHANGED <<liveEntries, logged, pos, left, crossed>>

Logs ==
  /\ logged < MaxLogged
  /\ logged' = logged + 1
  /\ UNCHANGED <<live, liveEntries, viewRef, wsState, pos, left, crossed>>

LastShown(q) == SubSeq(q, Len(q) - MaxShown + 1, Len(q))

\* onmessage: the state of a page that has been left takes nothing.
OnMessage(s) ==
  /\ wsState[s] = "open" /\ pos[s] < logged
  /\ pos' = [pos EXCEPT ![s] = @ + 1]
  /\ liveEntries' =
       LET next == Append(liveEntries, pos[s] + 1)
       IN  IF s \in left THEN liveEntries
           ELSE IF Len(next) > MaxShown THEN LastShown(next) ELSE next
  /\ UNCHANGED <<live, viewRef, logged, wsState, left, crossed>>

\* The server ends the tail, or the network does.
ServerCloses(s) ==
  /\ wsState[s] = "open"
  /\ wsState' = [wsState EXCEPT ![s] = "closing"]
  /\ UNCHANGED <<live, liveEntries, viewRef, logged, pos, left, crossed>>

OnClose(s) ==
  /\ wsState[s] = "closing"
  /\ wsState' = [wsState EXCEPT ![s] = "closed"]
  /\ live' = (live /\ s \in left)
  /\ crossed' = (crossed \/ (live /\ s \notin left /\ viewRef # s))
  /\ UNCHANGED <<liveEntries, viewRef, logged, pos, left>>

\* Another page is opened, and later this one anew.
LeavePage ==
  /\ viewRef # NoView \/ liveEntries # << >>
  /\ left' = {s \in ViewSockets : wsState[s] # "new"}
  /\ live' = FALSE /\ liveEntries' = << >> /\ viewRef' = NoView
  /\ crossed' = FALSE
  /\ UNCHANGED <<logged, wsState, pos>>

ViewNext ==
  \/ \E s \in ViewSockets : StartLive(s) \/ OnMessage(s) \/ ServerCloses(s) \/ OnClose(s)
  \/ StopLive \/ Logs \/ LeavePage

----------------------------------------------------------------------------
(* Properties *)

\* Unless the close event of an earlier socket came late, one socket at most feeds
\* the page, it is the one the stop button closes, and the page shows its last
\* lines in their order, each once and without a gap.
ViewSound ==
  ~crossed =>
    /\ \A s \in ViewSockets \ left : wsState[s] = "open" => live /\ viewRef = s
    /\ \A i \in 1 .. Len(liveEntries) - 1 : liveEntries[i + 1] = liveEntries[i] + 1
=============================================================================
