------------------------------- MODULE WsHub -------------------------------
(***************************************************************************)
(* The WebSocket hub that streams metrics to the browsers                  *)
(* (internal/websocket/hub.go), fed by the metrics buffer.                 *)
(*                                                                         *)
(* Goroutines: the hub's Run loop, the collector, and per connection the   *)
(* HTTP handler, its two pumps and a one-shot sendHistory.  A case of      *)
(* Run's select is one atomic step: it holds the lock of the client map,   *)
(* and the other goroutines meet it only at the clients' channels, once    *)
(* per client and case.  register and unregister are unbuffered, so that   *)
(* their cases are rendezvous with the goroutine that sends.               *)
(*                                                                         *)
(* A snapshot is its sequence number.  A message is delivered in the step  *)
(* that writes it to a connection whose peer reads.                        *)
(***************************************************************************)
EXTENDS MetricsBuffer, FiniteSets

CONSTANTS
  Clients,       \* connections; each is made at most once
  SendCap,       \* capacity of a client's send channel
  BroadcastCap   \* capacity of the hub's broadcast channel

ASSUME WsHubAssumption ==
  /\ Snapshots \subseteq Nat \ {0}
  /\ None = 0
  /\ SendCap \in Nat \ {0} /\ BroadcastCap \in Nat \ {0}

VARIABLES
  hub,        \* the Run loop and, when it has crashed, the whole process
  cancelled,  \* the context handed to Run
  members,    \* h.clients
  broadcast,  \* h.broadcast
  send,       \* c.send: the messages it buffers
  closed,     \* c.send is closed
  reader,     \* ServeMetrics and then readPump
  writer,     \* writePump
  hist,       \* sendHistory: its stage
  histSnap,   \*   and the newest snapshot of the history it has read
  conn,       \* the connection
  alive,      \* the browser still reads and answers pings
  shown,      \* the snapshot the browser shows as the latest
  lastLive    \* history: the last "metrics" message the browser received

loop == <<hub, cancelled, members, broadcast>>
channels == <<send, closed>>
history == <<hist, histSnap>>
browser == <<alive, shown, lastLive>>
vars == <<bufferVars, loop, channels, reader, writer, history, conn, browser>>

----------------------------------------------------------------------------

Message == [type : {"metrics", "history"}, snap : Snapshots]

TypeOK ==
  /\ BufferTypeOK
  /\ hub \in {"running", "stopped", "crashed"}
  /\ cancelled \in BOOLEAN
  /\ members \subseteq Clients
  /\ broadcast \in Seq(Snapshots) /\ Len(broadcast) <= BroadcastCap
  /\ \A c \in Clients : send[c] \in Seq(Message) /\ Len(send[c]) <= SendCap
  /\ closed \in [Clients -> BOOLEAN]
  /\ reader \in [Clients -> {"off", "register", "run", "unregister", "done"}]
  /\ writer \in [Clients -> {"off", "run", "done"}]
  /\ hist \in [Clients -> {"off", "read", "send", "done", "panic"}]
  /\ histSnap \in [Clients -> Snapshots \cup {None}]
  /\ conn \in [Clients -> {"off", "open", "closed"}]
  /\ alive \in [Clients -> BOOLEAN]
  /\ shown \in [Clients -> Snapshots \cup {None}]
  /\ lastLive \in [Clients -> Snapshots \cup {None}]

Up == hub # "crashed"
Running == hub = "running"
Full(c) == Len(send[c]) = SendCap

\* Peer gone or silent: reads and writes end with an error or at a deadline.
Broken(c) == conn[c] = "closed" \/ ~alive[c]

----------------------------------------------------------------------------
(* The collector: a failed collection pushes nothing *)

Collect ==
  /\ Up /\ ~cancelled
  /\ \E s \in Snapshots : s = Latest + 1 /\ Push(s)
  /\ UNCHANGED <<loop, channels, reader, writer, history, conn, browser>>

----------------------------------------------------------------------------
(* The Run loop *)

\* register: the handler goes on to start the pumps, the hub sendHistory.
HubRegister(c) ==
  /\ Running /\ reader[c] = "register"
  /\ members' = members \cup {c}
  /\ hist' = [hist EXCEPT ![c] = "read"]
  /\ reader' = [reader EXCEPT ![c] = "run"]
  /\ writer' = [writer EXCEPT ![c] = "run"]
  /\ UNCHANGED <<bufferVars, hub, cancelled, broadcast, channels, histSnap, conn, browser>>

\* A panic in the loop ends the process, and what the step leaves behind with it.
CrashIf(panics) == hub' = IF panics THEN "crashed" ELSE hub

\* unregister, sent by a readPump that ends; the pump then closes the
\* connection.  Closing a closed channel panics: the membership test is there
\* for clients that a broadcast has dropped before.
HubUnregister_NoTest(c) ==
  /\ Running /\ reader[c] = "unregister"
  /\ CrashIf(closed[c])
  /\ closed' = [closed EXCEPT ![c] = TRUE]
  /\ members' = members \ {c}
  /\ reader' = [reader EXCEPT ![c] = "done"]
  /\ conn' = [conn EXCEPT ![c] = "closed"]
  /\ UNCHANGED <<bufferVars, cancelled, broadcast, send, writer, history, browser>>
HubUnregister(c) ==
  /\ Running /\ reader[c] = "unregister"
  /\ CrashIf(c \in members /\ closed[c])
  /\ closed' = [closed EXCEPT ![c] = @ \/ c \in members]
  /\ members' = members \ {c}
  /\ reader' = [reader EXCEPT ![c] = "done"]
  /\ conn' = [conn EXCEPT ![c] = "closed"]
  /\ UNCHANGED <<bufferVars, cancelled, broadcast, send, writer, history, browser>>

\* broadcast: every member gets the message, one without room is dropped.  A
\* send on a closed channel panics, even where a full one would be passed over,
\* and so does a second close.
HubBroadcast_KeepSlow ==
  /\ Running /\ broadcast # << >>
  /\ CrashIf(\E c \in members : closed[c])
  /\ broadcast' = Tail(broadcast)
  /\ LET msg == [type |-> "metrics", snap |-> Head(broadcast)]
     IN  /\ send' = [c \in Clients |-> IF c \in members /\ ~Full(c)
                                       THEN Append(send[c], msg) ELSE send[c]]
         /\ closed' = [c \in Clients |-> closed[c] \/ (c \in members /\ Full(c))]
  /\ UNCHANGED <<bufferVars, members, cancelled, reader, writer, history, conn, browser>>
HubBroadcast ==
  /\ Running /\ broadcast # << >>
  /\ CrashIf(\E c \in members : closed[c])
  /\ broadcast' = Tail(broadcast)
  /\ LET msg == [type |-> "metrics", snap |-> Head(broadcast)]
         slow == {c \in members : Full(c)}
     IN  /\ send' = [c \in Clients |-> IF c \in members \ slow
                                       THEN Append(send[c], msg) ELSE send[c]]
         /\ closed' = [c \in Clients |-> closed[c] \/ c \in slow]
         /\ members' = members \ slow
  /\ UNCHANGED <<bufferVars, cancelled, reader, writer, history, conn, browser>>

\* ticker: the loop sends to its own broadcast channel.  A full channel would
\* block the loop for ever; the guard assumes that BroadcastCap ticks, one a
\* second, never come without a broadcast case in between.
HubTick ==
  /\ Running /\ Latest # None /\ Len(broadcast) < BroadcastCap
  /\ broadcast' = Append(broadcast, Latest)
  /\ UNCHANGED <<bufferVars, hub, cancelled, members, channels, reader, writer, history,
                 conn, browser>>

\* The server's Start cancels the context when it has stopped listening.
Cancel ==
  /\ Up /\ ~cancelled /\ cancelled' = TRUE
  /\ UNCHANGED <<bufferVars, hub, members, broadcast, channels, reader, writer, history,
                 conn, browser>>

HubStop ==
  /\ Running /\ cancelled /\ hub' = "stopped"
  /\ UNCHANGED <<bufferVars, cancelled, members, broadcast, channels, reader, writer,
                 history, conn, browser>>

----------------------------------------------------------------------------
(* sendHistory: read the buffer, then a send that does not block.  On a closed *)
(* channel the send panics, and no recover stands above the goroutine.         *)

ReadHistory(c) ==
  /\ Up /\ hist[c] = "read"
  /\ histSnap' = [histSnap EXCEPT ![c] = Latest]
  /\ hist' = [hist EXCEPT ![c] = IF History = << >> THEN "done" ELSE "send"]
  /\ UNCHANGED <<bufferVars, loop, channels, reader, writer, conn, browser>>

SendHistory_AsMetrics(c) ==
  /\ Up /\ hist[c] = "send" /\ ~closed[c]
  /\ hist' = [hist EXCEPT ![c] = "done"]
  /\ send' = [send EXCEPT ![c] =
                IF Full(c) THEN @ ELSE Append(@, [type |-> "metrics", snap |-> histSnap[c]])]
  /\ UNCHANGED <<bufferVars, loop, closed, reader, writer, histSnap, conn, browser>>
SendHistory(c) ==
  /\ Up /\ hist[c] = "send"
  /\ \/ /\ ~closed[c]
        /\ hist' = [hist EXCEPT ![c] = "done"]
        /\ send' = [send EXCEPT ![c] =
             IF Full(c) THEN @ ELSE Append(@, [type |-> "history", snap |-> histSnap[c]])]
        /\ UNCHANGED hub
     \/ /\ closed[c]
        /\ hist' = [hist EXCEPT ![c] = "panic"]
        /\ hub' = "crashed"
        /\ UNCHANGED send
  /\ UNCHANGED <<bufferVars, cancelled, members, broadcast, closed, reader, writer,
                 histSnap, conn, browser>>

----------------------------------------------------------------------------
(* A connection *)

\* ServeMetrics after the token check and the upgrade: it waits for the hub.
Connect(c) ==
  /\ Up /\ reader[c] = "off"
  /\ reader' = [reader EXCEPT ![c] = "register"]
  /\ conn' = [conn EXCEPT ![c] = "open"]
  /\ alive' = [alive EXCEPT ![c] = TRUE]
  /\ UNCHANGED <<bufferVars, loop, channels, writer, history, shown, lastLive>>

\* The browser's onmessage: both kinds of message set what it shows.
Onmessage_HistoryOnly(c, msg) ==
  /\ shown' = IF msg.type = "history" THEN [shown EXCEPT ![c] = msg.snap] ELSE shown
  /\ lastLive' = IF msg.type = "metrics" THEN [lastLive EXCEPT ![c] = msg.snap] ELSE lastLive
Onmessage(c, msg) ==
  /\ shown' = [shown EXCEPT ![c] = msg.snap]
  /\ lastLive' = IF msg.type = "metrics" THEN [lastLive EXCEPT ![c] = msg.snap] ELSE lastLive

\* writePump takes a message; a silent peer's buffers may swallow it.
WriteMessage(c) ==
  /\ Up /\ writer[c] = "run" /\ send[c] # << >> /\ conn[c] = "open"
  /\ send' = [send EXCEPT ![c] = Tail(@)]
  /\ IF alive[c] THEN Onmessage(c, Head(send[c])) ELSE UNCHANGED <<shown, lastLive>>
  /\ UNCHANGED <<bufferVars, loop, closed, reader, writer, history, conn, alive>>

\* writePump ends, on an error of a message or a ping or on the closed and
\* emptied channel, and closes the connection.
WriterEnds(c) ==
  /\ Up /\ writer[c] = "run"
  /\ Broken(c) \/ (closed[c] /\ send[c] = << >>)
  /\ writer' = [writer EXCEPT ![c] = "done"]
  /\ conn' = [conn EXCEPT ![c] = "closed"]
  /\ UNCHANGED <<bufferVars, loop, channels, reader, history, browser>>

\* readPump ends: a read error or no pong within pongWait.
ReaderEnds_NoUnregister(c) ==
  /\ Up /\ reader[c] = "run" /\ Broken(c)
  /\ reader' = [reader EXCEPT ![c] = "done"]
  /\ conn' = [conn EXCEPT ![c] = "closed"]
  /\ UNCHANGED <<bufferVars, loop, channels, writer, history, browser>>
ReaderEnds(c) ==
  /\ Up /\ reader[c] = "run" /\ Broken(c)
  /\ reader' = [reader EXCEPT ![c] = "unregister"]
  /\ UNCHANGED <<bufferVars, loop, channels, writer, history, conn, browser>>

\* The browser closes the connection, or falls silent without a word.
PeerCloses(c) ==
  /\ Up /\ conn[c] = "open"
  /\ conn' = [conn EXCEPT ![c] = "closed"]
  /\ UNCHANGED <<bufferVars, loop, channels, reader, writer, history, browser>>

PeerSilent(c) ==
  /\ Up /\ conn[c] = "open" /\ alive[c]
  /\ alive' = [alive EXCEPT ![c] = FALSE]
  /\ UNCHANGED <<bufferVars, loop, channels, reader, writer, history, conn, shown, lastLive>>

----------------------------------------------------------------------------

Init ==
  /\ NewBuffer
  /\ hub = "running"
  /\ cancelled = FALSE
  /\ members = {}
  /\ broadcast = << >>
  /\ send = [c \in Clients |-> << >>]
  /\ closed = [c \in Clients |-> FALSE]
  /\ reader = [c \in Clients |-> "off"]
  /\ writer = [c \in Clients |-> "off"]
  /\ hist = [c \in Clients |-> "off"]
  /\ histSnap = [c \in Clients |-> None]
  /\ conn = [c \in Clients |-> "off"]
  /\ alive = [c \in Clients |-> FALSE]
  /\ shown = [c \in Clients |-> None]
  /\ lastLive = [c \in Clients |-> None]

Serve(c) ==
  \/ HubRegister(c)
  \/ HubUnregister(c)
  \/ ReadHistory(c)
  \/ SendHistory(c)
  \/ WriteMessage(c)
  \/ WriterEnds(c)
  \/ ReaderEnds(c)

Environment(c) ==
  \/ Connect(c)
  \/ PeerCloses(c)
  \/ PeerSilent(c)

Next ==
  \/ Collect
  \/ HubBroadcast
  \/ HubTick
  \/ HubStop
  \/ Cancel
  \/ \E c \in Clients : Serve(c) \/ Environment(c)

\* The Go scheduler runs every goroutine that can go on, and a select picks
\* among its ready cases at random: none that stays ready is passed over for
\* ever.  Nothing is assumed of the collector, the browsers or the operator.
Fairness ==
  /\ WF_vars(HubBroadcast) /\ WF_vars(HubTick) /\ WF_vars(HubStop)
  /\ \A c \in Clients :
       /\ WF_vars(HubRegister(c)) /\ WF_vars(HubUnregister(c))
       /\ WF_vars(ReadHistory(c)) /\ WF_vars(SendHistory(c))
       /\ WF_vars(WriteMessage(c)) /\ WF_vars(WriterEnds(c))
       /\ WF_vars(ReaderEnds(c))

SafeSpec == Init /\ [][Next]_vars
Spec == SafeSpec /\ Fairness

----------------------------------------------------------------------------
(* Properties *)

\* Run never closes a client's channel twice and never sends on one that it has
\* closed, although both a slow client's broadcast and its unregister close it, in
\* either order: what brings the server down is only a history that finds its
\* client gone.
OnlyLateHistoryPanics == hub = "crashed" => \E c \in Clients : hist[c] = "panic"

\* The live snapshots that a browser has received last, those on their way to it through both channels,
\* and the newest one, each at its place in line.
LiveAhead(c) ==
  {<<0, lastLive[c]>>, <<SendCap + BroadcastCap + 1, Latest>>}
    \cup {<<i, send[c][i].snap>> : i \in {j \in DOMAIN send[c] : send[c][j].type = "metrics"}}
    \cup {<<SendCap + k, broadcast[k]>> : k \in IF c \in members THEN DOMAIN broadcast ELSE {}}

\* Live snapshots reach a browser in the order in which they were collected,
\* through both channels, and none is newer than the buffer.
LiveInOrder ==
  \A c \in Clients : \A a, b \in LiveAhead(c) : a[1] < b[1] => a[2] <= b[2]

\* A registered browser is never left behind for good: again and again it
\* shows the newest snapshot, or the hub has let it go.
CatchesUp ==
  \A c \in Clients : []<>(Running /\ c \in members => shown[c] = Latest)

Ended(c) ==
  /\ reader[c] = "done" /\ writer[c] = "done" /\ hist[c] = "done"
  /\ c \notin members

\* When a browser has gone, by a close or silently, everything it occupied on
\* the server ends, as long as the loop runs.
GoroutinesEnd ==
  \A c \in Clients : (conn[c] # "off" /\ Broken(c)) ~> (Ended(c) \/ ~Running)

\* What the comment on Run says: it runs until its context is cancelled.
RunsUntilCancelled == hub # "running" => cancelled
=============================================================================
