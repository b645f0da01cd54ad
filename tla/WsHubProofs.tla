---------------------------- MODULE WsHubProofs ----------------------------
(***************************************************************************)
(* Proofs about the metrics buffer and the hub that streams it, for any    *)
(* size of the buffer and the channels and any number of connections.      *)
(***************************************************************************)
EXTENDS WsHub, SequenceTheorems, TLAPS

USE BufferAssumption, WsHubAssumption

----------------------------------------------------------------------------
(* The ring *)

\* The remainder, where one turn around the ring is all that can be in it.
LEMMA OneTurn ==
  ASSUME NEW n \in Nat \ {0}, NEW x \in Nat, x < 2 * n
  PROVE  x % n = IF x < n THEN x ELSE x - n
<1>1. CASE x < n
  BY <1>1, SMT
<1>2. CASE x >= n
  BY <1>2, SMT
<1> QED BY <1>1, <1>2

\* The cell of the i-th oldest snapshot, without remainders.
Cell(i) == IF head - count + i - 1 >= 0 THEN head - count + i - 1
                                        ELSE head - count + i - 1 + BufferSize

\* In use are the cells before head, and all once the ring has filled up.
Filled == /\ count < BufferSize => head = count
          /\ \A i \in Cells : i < count => data[i] \in Snapshots

BufferInv == BufferTypeOK /\ Filled

\* History reads its cells one after the other.
LEMMA HistoryCells ==
  BufferTypeOK =>
         /\ History = [i \in 1 .. count |-> data[Cell(i)]]
         /\ \A i \in 1 .. count : Cell(i) \in Cells
<1> SUFFICES ASSUME BufferTypeOK
             PROVE  /\ History = [i \in 1 .. count |-> data[Cell(i)]]
                    /\ \A i \in 1 .. count : Cell(i) \in Cells
  OBVIOUS
<1> USE DEF BufferTypeOK, Cells
<1> DEFINE start == (head - count + BufferSize) % BufferSize
<1>1. start = IF head >= count THEN head - count ELSE head - count + BufferSize
  <2> DEFINE x == head - count + BufferSize
  <2>1. x \in Nat /\ x < 2 * BufferSize
    BY DEF BufferAssumption
  <2>2. x % BufferSize = IF x < BufferSize THEN x ELSE x - BufferSize
    <3> HIDE DEF x
    <3> QED BY <2>1, OneTurn DEF BufferAssumption
  <2> QED BY <2>1, <2>2 DEF BufferAssumption
<1>2. History = [i \in 1 .. count |-> data[(start + i - 1) % BufferSize]]
  BY DEF History
<1> HIDE DEF start
<1>3. \A i \in 1 .. count : (start + i - 1) % BufferSize = Cell(i) /\ Cell(i) \in Cells
  <2> TAKE i \in 1 .. count
  <2> DEFINE x == start + i - 1
  <2>1. x \in Nat /\ x < 2 * BufferSize
    BY <1>1 DEF BufferAssumption
  <2>2. x % BufferSize = IF x < BufferSize THEN x ELSE x - BufferSize
    <3> HIDE DEF x
    <3> QED BY <2>1, OneTurn DEF BufferAssumption
  <2> QED BY <1>1, <2>1, <2>2 DEF Cell, BufferAssumption
<1> QED BY <1>2, <1>3

\* What it reads are snapshots.
LEMMA HistorySeq ==
  BufferInv => /\ History \in Seq(Snapshots) /\ Len(History) = count
               /\ count > 0 => Latest = History[count] /\ Latest \in Snapshots
<1> SUFFICES ASSUME BufferInv
             PROVE  /\ History \in Seq(Snapshots) /\ Len(History) = count
                    /\ count > 0 => Latest = History[count] /\ Latest \in Snapshots
  OBVIOUS
<1> USE DEF BufferInv, BufferTypeOK
<1>1. \A i \in 1 .. count : data[Cell(i)] \in Snapshots
  BY HistoryCells DEF Filled, Cell, Cells, BufferAssumption
<1>2. History = [i \in 1 .. count |-> data[Cell(i)]]
  BY HistoryCells
<1>3. History \in Seq(Snapshots) /\ Len(History) = count
  <2> DEFINE h == [i \in 1 .. count |-> data[Cell(i)]]
  <2>1. h \in [1 .. count -> Snapshots] /\ count \in Nat
    BY <1>1 DEF BufferAssumption
  <2>2. h \in Seq(Snapshots)
    <3> HIDE DEF h
    <3> QED BY <2>1, SeqDef
  <2>3. DOMAIN h = 1 .. count
    OBVIOUS
  <2> HIDE DEF h
  <2>4. Len(h) = count
    BY <2>1, <2>2, <2>3, LenProperties
  <2> QED BY <1>2, <2>2, <2>4 DEF h
<1>4. ASSUME count > 0 PROVE Latest = History[count] /\ Latest \in Snapshots
  <2>1. (head - 1 + BufferSize) % BufferSize = IF head = 0 THEN BufferSize - 1 ELSE head - 1
    <3> DEFINE x == head - 1 + BufferSize
    <3>1. x \in Nat /\ x < 2 * BufferSize
      BY DEF Cells, BufferAssumption
    <3>2. x % BufferSize = IF x < BufferSize THEN x ELSE x - BufferSize
      <4> HIDE DEF x
      <4> QED BY <3>1, OneTurn DEF BufferAssumption
    <3> QED BY <3>1, <3>2 DEF Cells, BufferAssumption
  <2>2. Cell(count) = (head - 1 + BufferSize) % BufferSize
    BY <2>1 DEF Cell, Cells, BufferAssumption
  <2>3. History[count] = data[Cell(count)] /\ History[count] \in Snapshots
    BY <1>1, <1>2, <1>4
  <2> QED BY <1>4, <2>2, <2>3 DEF Latest
<1> QED BY <1>3, <1>4

\* Push writes the cell after the newest, which is the oldest one when the ring is full.
LEMMA PushKeeps ==
  ASSUME BufferInv, NEW s \in Snapshots, Push(s)
  PROVE  BufferInv' /\ Abstract!Push(s)
<1> USE DEF BufferInv, BufferTypeOK
<1>1. head' = IF head + 1 < BufferSize THEN head + 1 ELSE 0
  <2> DEFINE x == head + 1
  <2>1. x \in Nat /\ x < 2 * BufferSize
    BY DEF Cells, BufferAssumption
  <2>2. x % BufferSize = IF x < BufferSize THEN x ELSE x - BufferSize
    <3> HIDE DEF x
    <3> QED BY <2>1, OneTurn DEF BufferAssumption
  <2> QED BY <2>1, <2>2 DEF Push, Cells, BufferAssumption
<1>2. data' = [data EXCEPT ![head] = s] /\ count' = IF count < BufferSize THEN count + 1 ELSE count
  BY DEF Push
<1>3. BufferTypeOK'
  BY <1>1, <1>2 DEF Cells, BufferAssumption
<1>4. Filled'
  BY <1>1, <1>2 DEF Filled, Cells, BufferAssumption
<1>5. History' \in Seq(Snapshots) /\ Len(History)' = count'
  <2>1. (BufferInv => History \in Seq(Snapshots) /\ Len(History) = count)'
    BY HistorySeq, PTL
  <2> QED BY <1>3, <1>4, <2>1
<1>6. History' = [i \in 1 .. count' |-> data'[Cell(i)']]
  <2>1. (BufferTypeOK => History = [i \in 1 .. count |-> data[Cell(i)]])'
    BY HistoryCells, PTL
  <2> QED BY <1>3, <2>1
<1>7. /\ History = [i \in 1 .. count |-> data[Cell(i)]]
      /\ \A i \in 1 .. count : Cell(i) \in Cells
      /\ History \in Seq(Snapshots) /\ Len(History) = count
  BY HistoryCells, HistorySeq
<1> DEFINE longer == Append(History, s)
<1>8. /\ longer \in Seq(Snapshots) /\ Len(longer) = count + 1
      /\ \A i \in 1 .. count : longer[i] = data[Cell(i)]
      /\ longer[count + 1] = s
  BY <1>7, AppendProperties
<1> HIDE DEF longer
<1>9. CASE count < BufferSize
  <2>1. \A i \in 1 .. count : Cell(i)' = Cell(i) /\ Cell(i) # head
    BY <1>1, <1>2, <1>9 DEF Cell, Filled, Cells, BufferAssumption
  <2>2. Cell(count)' = head /\ count' = count + 1
    BY <1>1, <1>2, <1>9 DEF Cell, Filled, Cells, BufferAssumption
  <2>3. Abstract!Keep(longer) = longer
    BY <1>8, <1>9, SubSeqFull DEF Abstract!Keep, BufferAssumption
  <2>4. \A i \in 1 .. count + 1 : History'[i] = longer[i]
    <3>1. \A i \in 1 .. count : History'[i] = data'[Cell(i)'] /\ data'[Cell(i)'] = data[Cell(i)]
      BY <1>2, <1>6, <1>7, <2>1, <2>2
    <3>2. History'[count'] = data'[Cell(count)'] /\ data'[Cell(count)'] = s
      BY <1>2, <1>6, <2>2
    <3> QED BY <1>8, <2>2, <3>1, <3>2
  <2>5. History' = longer
    BY <1>2, <1>5, <1>8, <1>9, <2>4, SeqEqual
  <2> QED BY <1>3, <1>4, <2>3, <2>5 DEF Abstract!Push, longer
<1>10. CASE count = BufferSize
  <2>1. \A i \in 1 .. count - 1 : Cell(i)' = Cell(i + 1) /\ Cell(i + 1) # head
    BY <1>1, <1>2, <1>10 DEF Cell, Cells, BufferAssumption
  <2>2. Cell(count)' = head
    BY <1>1, <1>2, <1>10 DEF Cell, Cells, BufferAssumption
  <2>3. \A i \in 1 .. count : History'[i] = longer[i + 1]
    BY <1>2, <1>6, <1>7, <1>8, <1>10, <2>1, <2>2
  <2>4. Abstract!Keep(longer) = SubSeq(longer, 2, count + 1)
    BY <1>8, <1>10 DEF Abstract!Keep, BufferAssumption
  <2>5. /\ SubSeq(longer, 2, count + 1) \in Seq(Snapshots)
        /\ Len(SubSeq(longer, 2, count + 1)) = count
        /\ \A i \in 1 .. count : SubSeq(longer, 2, count + 1)[i] = longer[i + 1]
    BY <1>8, <1>10, SubSeqProperties DEF BufferAssumption
  <2>6. History' = SubSeq(longer, 2, count + 1)
    <3> DEFINE kept == SubSeq(longer, 2, count + 1)
    <3>1. kept \in Seq(Snapshots) /\ Len(kept) = count /\ \A i \in 1 .. count : kept[i] = longer[i + 1]
      BY <2>5
    <3>2. Len(History') = count
      BY <1>2, <1>5, <1>10
    <3> HIDE DEF kept
    <3> QED BY <1>5, <2>3, <3>1, <3>2, SeqEqual DEF kept
  <2> QED BY <1>3, <1>4, <2>4, <2>6 DEF Abstract!Push, longer
<1> QED BY <1>9, <1>10
----------------------------------------------------------------------------
(* The hub *)

LoopTypeOK ==
  /\ hub \in {"running", "stopped", "crashed"}
  /\ cancelled \in BOOLEAN
  /\ members \subseteq Clients
  /\ broadcast \in Seq(Snapshots) /\ Len(broadcast) <= BroadcastCap

ChannelsTypeOK ==
  /\ send \in [Clients -> Seq(Message)]
  /\ \A c \in Clients : Len(send[c]) <= SendCap
  /\ closed \in [Clients -> BOOLEAN]

GoroutinesTypeOK ==
  /\ reader \in [Clients -> {"off", "register", "run", "unregister", "done"}]
  /\ writer \in [Clients -> {"off", "run", "done"}]
  /\ hist \in [Clients -> {"off", "read", "send", "done", "panic"}]
  /\ histSnap \in [Clients -> Snapshots \cup {None}]
  /\ \A c \in Clients : hist[c] = "send" => histSnap[c] \in Snapshots

BrowsersTypeOK ==
  /\ conn \in [Clients -> {"off", "open", "closed"}]
  /\ alive \in [Clients -> BOOLEAN]
  /\ shown \in [Clients -> Snapshots \cup {None}]
  /\ lastLive \in [Clients -> Snapshots \cup {None}]

\* A channel that is closed is no member's, nor that of a connection that may still become one.
ClosedIsGone ==
  \A c \in Clients :
    /\ closed[c] => c \notin members
    /\ closed[c] \/ c \in members => reader[c] \notin {"off", "register"}

HubInv ==
  /\ BufferInv
  /\ LoopTypeOK /\ ChannelsTypeOK /\ GoroutinesTypeOK /\ BrowsersTypeOK
  /\ ClosedIsGone
  /\ OnlyLateHistoryPanics

\* Buffer, channels and connections start empty.
LEMMA HubInit == Init => HubInv
<1> SUFFICES ASSUME Init PROVE HubInv
  OBVIOUS
<1> USE DEF Init
<1>1. BufferInv
  BY DEF NewBuffer, BufferInv, BufferTypeOK, Filled, Cells, BufferAssumption
<1>2. LoopTypeOK
  <2>1. broadcast \in Seq(Snapshots) /\ Len(broadcast) = 0
    BY EmptySeq
  <2>2. Len(broadcast) <= BroadcastCap
    BY <2>1 DEF WsHubAssumption
  <2> QED BY <2>1, <2>2 DEF LoopTypeOK
<1>3. ChannelsTypeOK
  BY DEF ChannelsTypeOK, WsHubAssumption
<1>4. GoroutinesTypeOK
  BY DEF GoroutinesTypeOK
<1>5. BrowsersTypeOK
  BY DEF BrowsersTypeOK
<1>6. OnlyLateHistoryPanics
  BY DEF OnlyLateHistoryPanics
<1>7. ClosedIsGone
  BY DEF ClosedIsGone
<1> QED BY <1>1, <1>2, <1>3, <1>4, <1>5, <1>6, <1>7 DEF HubInv

\* A message for a channel with room keeps it a channel of messages.
LEMMA SendStep ==
  ASSUME NEW q \in Seq(Message), Len(q) <= SendCap, NEW m \in Message
  PROVE  /\ Len(q) # SendCap => Append(q, m) \in Seq(Message) /\ Len(Append(q, m)) <= SendCap
         /\ q # << >> => /\ Tail(q) \in Seq(Message) /\ Len(Tail(q)) <= SendCap
                         /\ Head(q) \in Message
<1>1. Len(q) \in Nat
  BY LenProperties
<1>2. Append(q, m) \in Seq(Message) /\ Len(Append(q, m)) = Len(q) + 1
  BY AppendProperties
<1>3. q # << >> => /\ Tail(q) \in Seq(Message) /\ Len(Tail(q)) = Len(q) - 1
                   /\ Head(q) \in Message
  BY HeadTailProperties
<1> QED BY <1>1, <1>2, <1>3 DEF WsHubAssumption

\* No step opens a channel again or lets a client in whose channel is closed.
LEMMA ClosedStep == HubInv /\ [Next]_vars => ClosedIsGone'
<1> SUFFICES ASSUME HubInv, [Next]_vars PROVE ClosedIsGone'
  OBVIOUS
<1> USE DEF HubInv, ClosedIsGone
<1>1. CASE HubBroadcast
  <2> DEFINE slow == {c \in members : Full(c)}
  <2>1. /\ closed' = [c \in Clients |-> closed[c] \/ c \in slow]
        /\ members' = members \ slow
        /\ UNCHANGED reader
    BY <1>1 DEF HubBroadcast
  <2>2. slow \subseteq members
    OBVIOUS
  <2> HIDE DEF slow
  <2> QED BY <2>1, <2>2
<1>2. ASSUME NEW c \in Clients, HubRegister(c) PROVE ClosedIsGone'
  BY <1>2 DEF HubRegister, channels, GoroutinesTypeOK
<1>3. ASSUME NEW c \in Clients, HubUnregister(c) PROVE ClosedIsGone'
  BY <1>3 DEF HubUnregister, GoroutinesTypeOK, ChannelsTypeOK
<1>4. ASSUME NEW c \in Clients, ReaderEnds(c) PROVE ClosedIsGone'
  BY <1>4 DEF ReaderEnds, loop, channels, GoroutinesTypeOK
<1>5. ASSUME NEW c \in Clients, Connect(c) PROVE ClosedIsGone'
  BY <1>5 DEF Connect, loop, channels, GoroutinesTypeOK
<1>6. ASSUME NEW c \in Clients,
             \/ ReadHistory(c) \/ SendHistory(c) \/ WriteMessage(c)
             \/ WriterEnds(c) \/ PeerCloses(c) \/ PeerSilent(c)
      PROVE  ClosedIsGone'
  BY <1>6 DEF ReadHistory, SendHistory, WriteMessage, WriterEnds, PeerCloses, PeerSilent, loop, channels
<1>7. CASE Collect \/ HubTick \/ HubStop \/ Cancel \/ UNCHANGED vars
  BY <1>7 DEF Collect, HubTick, HubStop, Cancel, vars, loop, channels
<1>8. ASSUME NEW c \in Clients, Serve(c) \/ Environment(c) PROVE ClosedIsGone'
  BY <1>2, <1>3, <1>4, <1>5, <1>6, <1>8 DEF Serve, Environment
<1> QED BY <1>1, <1>7, <1>8 DEF Next

\* Every step keeps types, and the loop crashes only together with a history.
LEMMA HubStep == HubInv /\ [Next]_vars => HubInv' /\ [Abstract!Next]_History
<1> SUFFICES ASSUME HubInv, [Next]_vars PROVE HubInv' /\ [Abstract!Next]_History
  OBVIOUS
<1> USE DEF HubInv
<1>16. ClosedIsGone'
  BY ClosedStep
<1>1. (UNCHANGED bufferVars) => BufferInv' /\ [Abstract!Next]_History
  BY DEF bufferVars, BufferInv, BufferTypeOK, Filled, History
<1>2. (UNCHANGED <<hub, hist>>) => OnlyLateHistoryPanics'
  BY DEF OnlyLateHistoryPanics
<1>3. CASE Collect
  <2>1. BufferInv' /\ Abstract!Next
    BY <1>3, PushKeeps DEF Collect, Abstract!Next
  <2> QED BY <1>16, <1>2, <1>3, <2>1
        DEF Collect, loop, channels, history, browser,
            LoopTypeOK, ChannelsTypeOK, GoroutinesTypeOK, BrowsersTypeOK
<1>4. CASE HubBroadcast
  <2> DEFINE msg == [type |-> "metrics", snap |-> Head(broadcast)]
             slow == {c \in members : Full(c)}
  <2>1. /\ Head(broadcast) \in Snapshots /\ Tail(broadcast) \in Seq(Snapshots)
        /\ Len(Tail(broadcast)) <= BroadcastCap /\ msg \in Message
    <3>1. broadcast \in Seq(Snapshots) /\ broadcast # << >> /\ Len(broadcast) \in Nat
      BY <1>4, LenProperties DEF HubBroadcast, LoopTypeOK
    <3>2. /\ Head(broadcast) \in Snapshots /\ Tail(broadcast) \in Seq(Snapshots)
          /\ Len(Tail(broadcast)) = Len(broadcast) - 1
      BY <3>1, HeadTailProperties
    <3> QED BY <3>1, <3>2 DEF LoopTypeOK, Message, WsHubAssumption
  <2>2. /\ broadcast' = Tail(broadcast)
        /\ send' = [c \in Clients |-> IF c \in members \ slow
                                      THEN Append(send[c], msg) ELSE send[c]]
        /\ closed' = [c \in Clients |-> closed[c] \/ c \in slow]
        /\ members' = members \ slow
        /\ UNCHANGED <<bufferVars, cancelled, reader, writer, history, conn, browser>>
    BY <1>4 DEF HubBroadcast
  <2>20. UNCHANGED hub
    <3>1. CrashIf(\E c \in members : closed[c])
      BY <1>4 DEF HubBroadcast
    <3>2. ~ \E c \in members : closed[c]
      BY DEF ClosedIsGone, LoopTypeOK
    <3> QED BY <3>1, <3>2 DEF CrashIf
  <2>3. \A c \in Clients : send'[c] \in Seq(Message) /\ Len(send'[c]) <= SendCap
    <3> TAKE c \in Clients
    <3> HIDE DEF msg
    <3>1. CASE c \in members \ slow
      BY <2>1, <2>2, <3>1, SendStep DEF ChannelsTypeOK, Full
    <3>2. CASE c \notin members \ slow
      BY <2>2, <3>2 DEF ChannelsTypeOK
    <3> QED BY <3>1, <3>2
  <2> HIDE DEF msg, slow
  <2>4. send' \in [Clients -> Seq(Message)] /\ closed' \in [Clients -> BOOLEAN]
    BY <2>2, <2>3
  <2>5. ChannelsTypeOK'
    BY <2>3, <2>4 DEF ChannelsTypeOK
  <2>6. LoopTypeOK'
    BY <2>1, <2>2, <2>20 DEF LoopTypeOK
  <2>7. GoroutinesTypeOK' /\ BrowsersTypeOK'
    BY <2>2 DEF history, browser, GoroutinesTypeOK, BrowsersTypeOK
  <2> QED BY <1>16, <1>1, <1>2, <2>2, <2>20, <2>5, <2>6, <2>7 DEF history
<1>5. CASE HubTick
  <2>1. Latest \in Snapshots
    <3>1. count > 0
      BY <1>5 DEF HubTick, Latest, BufferInv, BufferTypeOK
    <3> QED BY <3>1, HistorySeq
  <2>2. broadcast' \in Seq(Snapshots) /\ Len(broadcast') <= BroadcastCap
    <3>1. broadcast' = Append(broadcast, Latest) /\ Len(broadcast) < BroadcastCap
      BY <1>5 DEF HubTick
    <3>2. Len(broadcast) \in Nat
      BY LenProperties DEF LoopTypeOK
    <3>3. broadcast' \in Seq(Snapshots) /\ Len(broadcast') = Len(broadcast) + 1
      BY <2>1, <3>1, AppendProperties DEF LoopTypeOK
    <3> QED BY <3>1, <3>2, <3>3 DEF WsHubAssumption
  <2> QED BY <1>16, <1>1, <1>2, <1>5, <2>2
        DEF HubTick, channels, history, browser,
            LoopTypeOK, ChannelsTypeOK, GoroutinesTypeOK, BrowsersTypeOK
<1>6. CASE HubStop
  <2>1. OnlyLateHistoryPanics'
    BY <1>6 DEF HubStop, OnlyLateHistoryPanics
  <2> QED BY <1>16, <1>1, <1>6, <2>1
        DEF HubStop, channels, history, browser,
            LoopTypeOK, ChannelsTypeOK, GoroutinesTypeOK, BrowsersTypeOK
<1>7. CASE Cancel
  BY <1>1, <1>2, <1>7, <1>16
     DEF Cancel, channels, history, browser,
         LoopTypeOK, ChannelsTypeOK, GoroutinesTypeOK, BrowsersTypeOK
<1>8. ASSUME NEW c \in Clients, HubRegister(c) PROVE HubInv' /\ [Abstract!Next]_History
  <2>1. LoopTypeOK' /\ ChannelsTypeOK' /\ BrowsersTypeOK'
    BY <1>8 DEF HubRegister, channels, browser, LoopTypeOK, ChannelsTypeOK, BrowsersTypeOK
  <2>2. GoroutinesTypeOK'
    BY <1>8 DEF HubRegister, GoroutinesTypeOK
  <2>3. OnlyLateHistoryPanics'
    BY <1>8 DEF HubRegister, Running, OnlyLateHistoryPanics
  <2> QED BY <1>16, <1>1, <1>8, <2>1, <2>2, <2>3 DEF HubRegister
<1>9. ASSUME NEW c \in Clients, HubUnregister(c) PROVE HubInv' /\ [Abstract!Next]_History
  <2>5. UNCHANGED hub
    BY <1>9 DEF HubUnregister, CrashIf, ClosedIsGone
  <2>1. closed' \in [Clients -> BOOLEAN]
    BY <1>9 DEF HubUnregister, ChannelsTypeOK
  <2>2. members' \subseteq Clients
    BY <1>9 DEF HubUnregister, LoopTypeOK
  <2>3. GoroutinesTypeOK' /\ BrowsersTypeOK'
    BY <1>9 DEF HubUnregister, history, browser, GoroutinesTypeOK, BrowsersTypeOK
  <2>4. LoopTypeOK' /\ ChannelsTypeOK'
    BY <1>9, <2>1, <2>2, <2>5 DEF HubUnregister, LoopTypeOK, ChannelsTypeOK
  <2> QED BY <1>16, <1>1, <1>2, <1>9, <2>3, <2>4, <2>5 DEF HubUnregister, history
<1>10. ASSUME NEW c \in Clients, ReadHistory(c) PROVE HubInv' /\ [Abstract!Next]_History
  <2>1. Latest \in Snapshots \cup {None} /\ (History # << >> => Latest \in Snapshots)
    <3>1. count = 0 => Latest = None
      BY DEF Latest
    <3>2. count = 0 => History = << >>
      BY HistorySeq, EmptySeq
    <3>3. count \in Nat
      BY DEF BufferInv, BufferTypeOK, BufferAssumption
    <3> QED BY <3>1, <3>2, <3>3, HistorySeq
  <2>2. GoroutinesTypeOK'
    BY <1>10, <2>1 DEF ReadHistory, GoroutinesTypeOK
  <2>3. OnlyLateHistoryPanics'
    BY <1>10 DEF ReadHistory, Up, loop, OnlyLateHistoryPanics
  <2> QED BY <1>16, <1>1, <1>10, <2>2, <2>3
        DEF ReadHistory, loop, channels, browser, LoopTypeOK, ChannelsTypeOK, BrowsersTypeOK
<1>11. ASSUME NEW c \in Clients, SendHistory(c) PROVE HubInv' /\ [Abstract!Next]_History
  <2>1. GoroutinesTypeOK'
    BY <1>11 DEF SendHistory, GoroutinesTypeOK
  <2>2. OnlyLateHistoryPanics'
    BY <1>11 DEF SendHistory, Up, GoroutinesTypeOK, OnlyLateHistoryPanics
  <2>3. ChannelsTypeOK'
    <3>1. CASE send' = send
      BY <1>11, <3>1 DEF SendHistory, ChannelsTypeOK
    <3>2. CASE send' # send
      <4> DEFINE m == [type |-> "history", snap |-> histSnap[c]]
      <4>1. m \in Message
        BY <1>11 DEF SendHistory, GoroutinesTypeOK, Message
      <4>2. ~Full(c) /\ send' = [send EXCEPT ![c] = Append(@, m)]
        BY <1>11, <3>2 DEF SendHistory, ChannelsTypeOK
      <4> HIDE DEF m
      <4>3. Append(send[c], m) \in Seq(Message) /\ Len(Append(send[c], m)) <= SendCap
        BY <4>1, <4>2, SendStep DEF ChannelsTypeOK, Full
      <4> QED BY <1>11, <4>2, <4>3 DEF SendHistory, ChannelsTypeOK
    <3> QED BY <3>1, <3>2
  <2> QED BY <1>16, <1>1, <1>11, <2>1, <2>2, <2>3
        DEF SendHistory, browser, LoopTypeOK, BrowsersTypeOK
<1>12. ASSUME NEW c \in Clients, WriteMessage(c) PROVE HubInv' /\ [Abstract!Next]_History
  <2>1. /\ send[c] \in Seq(Message) /\ send[c] # << >> /\ Len(send[c]) <= SendCap
        /\ send' = [send EXCEPT ![c] = Tail(@)]
    BY <1>12 DEF WriteMessage, ChannelsTypeOK
  <2>2. /\ Tail(send[c]) \in Seq(Message) /\ Len(Tail(send[c])) <= SendCap
        /\ Head(send[c]) \in Message
    <3>1. Len(send[c]) \in Nat
      BY <2>1, LenProperties
    <3>2. /\ Tail(send[c]) \in Seq(Message) /\ Len(Tail(send[c])) = Len(send[c]) - 1
          /\ Head(send[c]) \in Message
      BY <2>1, HeadTailProperties
    <3> QED BY <2>1, <3>1, <3>2 DEF WsHubAssumption
  <2>3. ChannelsTypeOK'
    BY <1>12, <2>1, <2>2 DEF WriteMessage, ChannelsTypeOK
  <2>4. BrowsersTypeOK'
    BY <1>12, <2>2 DEF WriteMessage, Onmessage, Message, BrowsersTypeOK
  <2> QED BY <1>16, <1>1, <1>2, <1>12, <2>3, <2>4
        DEF WriteMessage, loop, history, LoopTypeOK, GoroutinesTypeOK
<1>13. ASSUME NEW c \in Clients,
              WriterEnds(c) \/ ReaderEnds(c) \/ Connect(c) \/ PeerCloses(c) \/ PeerSilent(c)
       PROVE  HubInv' /\ [Abstract!Next]_History
  <2>1. UNCHANGED <<bufferVars, hub, cancelled, members, broadcast, send, closed, hist, histSnap>>
    BY <1>13 DEF WriterEnds, ReaderEnds, Connect, PeerCloses, PeerSilent, loop, channels, history
  <2>2. GoroutinesTypeOK'
    BY <1>13 DEF WriterEnds, ReaderEnds, Connect, PeerCloses, PeerSilent, history, GoroutinesTypeOK
  <2>3. BrowsersTypeOK'
    BY <1>13 DEF WriterEnds, ReaderEnds, Connect, PeerCloses, PeerSilent, browser, BrowsersTypeOK
  <2> QED BY <1>16, <1>1, <1>2, <2>1, <2>2, <2>3 DEF LoopTypeOK, ChannelsTypeOK
<1>14. CASE UNCHANGED vars
  BY <1>1, <1>2, <1>14, <1>16
     DEF vars, loop, channels, history, browser,
         LoopTypeOK, ChannelsTypeOK, GoroutinesTypeOK, BrowsersTypeOK
<1>15. ASSUME NEW c \in Clients, Serve(c) \/ Environment(c)
       PROVE  HubInv' /\ [Abstract!Next]_History
  BY <1>8, <1>9, <1>10, <1>11, <1>12, <1>13, <1>15 DEF Serve, Environment
<1> QED BY <1>3, <1>4, <1>5, <1>6, <1>7, <1>14, <1>15 DEF Next

\* Buffer, loop, channels and goroutines keep their types, and no channel exceeds its capacity.
THEOREM TypeCorrect == Spec => []TypeOK
<1>1. HubInv => TypeOK
  BY DEF HubInv, BufferInv, TypeOK, LoopTypeOK, ChannelsTypeOK, GoroutinesTypeOK, BrowsersTypeOK
<1> QED BY <1>1, HubInit, HubStep, PTL DEF Spec, SafeSpec

\* Nothing that Run or a pump does to a channel brings the server down: only a sendHistory that
\* finds its client gone does.
THEOREM HistoryAlonePanics == Spec => []OnlyLateHistoryPanics
<1>1. HubInv => OnlyLateHistoryPanics
  BY DEF HubInv
<1> QED BY <1>1, HubInit, HubStep, PTL DEF Spec, SafeSpec

\* The ring is the bounded history: a Push is an abstract push that drops the oldest snapshot when
\* the ring is full, whatever the position of head, and everything else leaves History alone.
THEOREM RingImplementsHistory == Spec => RefinesHistory
<1>1. Init => Abstract!Init
  <2>1. Init => HubInv /\ count = 0
    BY HubInit DEF Init, NewBuffer
  <2> QED BY <2>1, HistorySeq, EmptySeq DEF HubInv, Abstract!Init
<1> QED BY <1>1, HubInit, HubStep, PTL DEF Spec, SafeSpec, RefinesHistory, Abstract!Spec

----------------------------------------------------------------------------
(* The order of the live stream *)

Live(c) == {i \in 1 .. Len(send[c]) : send[c][i].type = "metrics"}

\* Nothing that a browser has received or will find in its channel is newer than x.
AtMost(c, x) == lastLive[c] <= x /\ \A i \in Live(c) : send[c][i].snap <= x

\* A connection that the hub has not registered yet has received nothing.
Unregistered(c) ==
  reader[c] \in {"off", "register"} =>
    send[c] = << >> /\ lastLive[c] = None /\ hist[c] = "off" /\ c \notin members

InLine(c) ==
  /\ \A i, j \in Live(c) : i < j => send[c][i].snap <= send[c][j].snap
  /\ \A i \in Live(c) : lastLive[c] <= send[c][i].snap
  /\ AtMost(c, Latest)
  /\ c \in members => \A k \in 1 .. Len(broadcast) : AtMost(c, broadcast[k])

QueueInLine ==
  /\ \A k, l \in 1 .. Len(broadcast) : k < l => broadcast[k] <= broadcast[l]
  /\ \A k \in 1 .. Len(broadcast) : broadcast[k] <= Latest

OrderInv == QueueInLine /\ \A c \in Clients : Unregistered(c) /\ InLine(c)

\* Snapshots are numbers.
LEMMA Numbers == \A x \in Snapshots : x \in Nat
BY DEF WsHubAssumption

\* The newest snapshot is a number, and a push makes it the pushed one.
LEMMA LatestNumber == HubInv => Latest \in Nat
<1> SUFFICES ASSUME HubInv PROVE Latest \in Nat
  OBVIOUS
<1>1. count \in Nat
  BY DEF HubInv, BufferInv, BufferTypeOK, BufferAssumption
<1>2. count = 0 => Latest = 0
  BY DEF Latest, WsHubAssumption
<1>3. count > 0 => Latest \in Snapshots
  BY HistorySeq DEF HubInv
<1>4. CASE count > 0
  BY <1>3, <1>4, Numbers
<1>5. CASE count = 0
  BY <1>2, <1>5
<1> QED BY <1>1, <1>4, <1>5

LEMMA LatestPushed ==
  ASSUME BufferInv, NEW s \in Snapshots, Push(s)
  PROVE  Latest' = s
<1> USE DEF BufferInv, BufferTypeOK
<1>1. head' = IF head + 1 < BufferSize THEN head + 1 ELSE 0
  <2> DEFINE x == head + 1
  <2>1. x \in Nat /\ x < 2 * BufferSize
    BY DEF Cells, BufferAssumption
  <2>2. x % BufferSize = IF x < BufferSize THEN x ELSE x - BufferSize
    <3> HIDE DEF x
    <3> QED BY <2>1, OneTurn DEF BufferAssumption
  <2> QED BY <2>1, <2>2 DEF Push, Cells, BufferAssumption
<1>2. (head' - 1 + BufferSize) % BufferSize = head
  <2> DEFINE x == head' - 1 + BufferSize
  <2>1. x \in Nat /\ x < 2 * BufferSize
    BY <1>1 DEF Cells, BufferAssumption
  <2>2. x % BufferSize = IF x < BufferSize THEN x ELSE x - BufferSize
    <3> HIDE DEF x
    <3> QED BY <2>1, OneTurn DEF BufferAssumption
  <2> QED BY <1>1, <2>1, <2>2 DEF Cells, BufferAssumption
<1>3. data' = [data EXCEPT ![head] = s] /\ count' # 0
  BY DEF Push, BufferAssumption
<1> QED BY <1>2, <1>3 DEF Latest

\* The messages of a channel, and how a message more or less moves the live ones.
LEMMA Queued ==
  ASSUME HubInv, NEW c \in Clients
  PROVE  /\ send[c] \in Seq(Message) /\ Len(send[c]) \in Nat /\ lastLive[c] \in Nat
         /\ \A i \in 1 .. Len(send[c]) : send[c][i] \in Message /\ send[c][i].snap \in Nat
<1>1. send[c] \in Seq(Message)
  BY DEF HubInv, ChannelsTypeOK
<1>2. \A i \in 1 .. Len(send[c]) : send[c][i] \in Message
  BY <1>1, ElementOfSeq
<1>3. \A m \in Message : m.snap \in Nat
  BY DEF Message, WsHubAssumption
<1>4. lastLive[c] \in Nat
  <2>1. lastLive[c] \in Snapshots \cup {None}
    BY DEF HubInv, BrowsersTypeOK
  <2>2. CASE lastLive[c] = None
    BY <2>2 DEF WsHubAssumption
  <2>3. CASE lastLive[c] \in Snapshots
    BY <2>3, Numbers
  <2> QED BY <2>1, <2>2, <2>3
<1> QED BY <1>1, <1>2, <1>3, <1>4, LenProperties

\* Everything in the broadcast channel is a number, too.
LEMMA QueuedBroadcasts ==
  HubInv => /\ broadcast \in Seq(Snapshots) /\ Len(broadcast) \in Nat
            /\ \A k \in 1 .. Len(broadcast) : broadcast[k] \in Nat
<1> SUFFICES ASSUME HubInv
             PROVE  /\ broadcast \in Seq(Snapshots) /\ Len(broadcast) \in Nat
                    /\ \A k \in 1 .. Len(broadcast) : broadcast[k] \in Nat
  OBVIOUS
<1>1. broadcast \in Seq(Snapshots)
  BY DEF HubInv, LoopTypeOK
<1>2. \A k \in 1 .. Len(broadcast) : broadcast[k] \in Snapshots
  BY <1>1, ElementOfSeq
<1> QED BY <1>1, <1>2, LenProperties DEF WsHubAssumption

\* Nothing is in line at the start.
LEMMA OrderInit == Init => OrderInv
<1> SUFFICES ASSUME Init PROVE OrderInv
  OBVIOUS
<1>1. Len(broadcast) = 0 /\ Latest = 0
  BY EmptySeq DEF Init, NewBuffer, Latest, WsHubAssumption
<1>2. \A c \in Clients : send[c] = << >> /\ Len(send[c]) = 0 /\ lastLive[c] = 0
  BY EmptySeq DEF Init, WsHubAssumption
<1>3. \A c \in Clients : hist[c] = "off" /\ members = {}
  BY DEF Init
<1> QED BY <1>1, <1>2, <1>3 DEF OrderInv, QueueInLine, Unregistered, InLine, AtMost, Live, WsHubAssumption

\* A client that a step leaves alone stays in line, whatever is newer.
LEMMA LeftAlone ==
  ASSUME HubInv, HubInv', NEW c \in Clients, InLine(c), Latest <= Latest',
         send'[c] = send[c], lastLive'[c] = lastLive[c],
         c \in members' => /\ c \in members
                           /\ \A k \in 1 .. Len(broadcast') :
                                \/ broadcast'[k] = Latest
                                \/ \E l \in 1 .. Len(broadcast) : broadcast'[k] = broadcast[l]
  PROVE  InLine(c)'
<1>1. Live(c)' = Live(c)
  BY DEF Live
<1>2. Latest \in Nat /\ Latest' \in Nat
  <2>1. (HubInv => Latest \in Nat)'
    BY LatestNumber, PTL
  <2> QED BY <2>1, LatestNumber
<1> QED BY <1>1, <1>2, Queued DEF InLine, AtMost, Live

\* Every step keeps the line: the loop hands the oldest broadcast to every client with room, and a
\* history does not count as live.
LEMMA OrderStep == HubInv /\ HubInv' /\ OrderInv /\ [Next]_vars => OrderInv'
<1> SUFFICES ASSUME HubInv, HubInv', OrderInv, [Next]_vars PROVE OrderInv'
  OBVIOUS
<1> USE DEF OrderInv
<1>0. /\ Latest \in Nat /\ Len(broadcast) \in Nat
      /\ \A k \in 1 .. Len(broadcast) : broadcast[k] \in Nat
  BY LatestNumber, QueuedBroadcasts
<1>1. ASSUME UNCHANGED bufferVars PROVE Latest' = Latest
  BY <1>1 DEF bufferVars, Latest
<1>2. ASSUME UNCHANGED <<bufferVars, broadcast>> PROVE QueueInLine'
  BY <1>1, <1>2 DEF QueueInLine
<1>3. ASSUME UNCHANGED <<bufferVars, broadcast>>, NEW c \in Clients,
             UNCHANGED <<send[c], lastLive[c]>>, c \in members' => c \in members
      PROVE  InLine(c)'
  BY <1>0, <1>1, <1>3, LeftAlone
<1>4. CASE Collect
  <2>1. Latest' = Latest + 1
    BY <1>4, LatestPushed DEF Collect, HubInv
  <2>2. UNCHANGED <<broadcast, members, send, lastLive, reader, hist>>
    BY <1>4 DEF Collect, loop, channels, history, browser
  <2>3. QueueInLine'
    BY <1>0, <2>1, <2>2 DEF QueueInLine
  <2>4. \A c \in Clients : InLine(c)'
    BY <1>0, <2>1, <2>2, LeftAlone
  <2> QED BY <2>2, <2>3, <2>4 DEF Unregistered
<1>5. CASE HubBroadcast
  <2> DEFINE first == Head(broadcast)
             msg == [type |-> "metrics", snap |-> first]
             slow == {c \in members : Full(c)}
  <2>1. /\ broadcast \in Seq(Snapshots) /\ broadcast # << >> /\ Len(broadcast) >= 1
        /\ first = broadcast[1] /\ first \in Nat /\ msg \in Message
    <3>1. broadcast \in Seq(Snapshots) /\ broadcast # << >> /\ Len(broadcast) >= 1
      BY <1>5, QueuedBroadcasts, EmptySeq DEF HubBroadcast
    <3>2. first = broadcast[1] /\ first \in Snapshots
      BY <3>1, HeadTailProperties
    <3> QED BY <3>1, <3>2, Numbers DEF Message
  <2>2. /\ broadcast' = Tail(broadcast) /\ members' = members \ slow
        /\ send' = [c \in Clients |-> IF c \in members \ slow
                                      THEN Append(send[c], msg) ELSE send[c]]
        /\ UNCHANGED <<bufferVars, reader, hist, lastLive>>
    BY <1>5 DEF HubBroadcast, history, browser
  <2> HIDE DEF first
  <2>3. /\ Len(broadcast') = Len(broadcast) - 1
        /\ \A k \in 1 .. Len(broadcast') : broadcast'[k] = broadcast[k + 1]
    BY <2>1, <2>2, HeadTailProperties
  <2>4. QueueInLine'
    BY <1>0, <1>1, <2>2, <2>3 DEF QueueInLine
  <2>5. ASSUME NEW c \in Clients PROVE Unregistered(c)'
    <3>1. Unregistered(c)
      OBVIOUS
    <3>2. CASE c \in members \ slow
      BY <2>2, <3>1, <3>2 DEF Unregistered
    <3>3. CASE c \notin members \ slow
      <4>1. send'[c] = send[c]
        BY <2>2, <3>3
      <4> QED BY <2>2, <3>1, <4>1 DEF Unregistered
    <3> QED BY <3>2, <3>3
  <2>6. ASSUME NEW c \in Clients, c \notin members \ slow PROVE InLine(c)'
    <3>1. send'[c] = send[c] /\ lastLive'[c] = lastLive[c] /\ c \notin members'
      BY <2>2, <2>6
    <3> QED BY <1>0, <1>1, <2>2, <3>1, LeftAlone
  <2>7. ASSUME NEW c \in Clients, c \in members \ slow PROVE InLine(c)'
    <3> DEFINE n == Len(send[c])
    <3>1. /\ send'[c] = Append(send[c], msg) /\ lastLive'[c] = lastLive[c] /\ c \in members
      BY <2>2, <2>7
    <3>2. /\ n \in Nat /\ Len(send'[c]) = n + 1 /\ send'[c][n + 1] = msg
          /\ \A i \in 1 .. n : send'[c][i] = send[c][i] /\ send[c][i].snap \in Nat
      BY <2>1, <3>1, Queued, AppendProperties
    <3>3. Live(c)' = Live(c) \cup {n + 1} /\ Live(c) \subseteq 1 .. n
      BY <3>2 DEF Live
    <3>4. InLine(c) /\ AtMost(c, first) /\ lastLive[c] \in Nat
      BY <2>1, <3>1, Queued DEF InLine
    <3>5. send'[c][n + 1].snap = first
      BY <3>2
    <3> HIDE DEF n
    <3>6. \A i, j \in Live(c)' : i < j => send'[c][i].snap <= send'[c][j].snap
      BY <3>2, <3>3, <3>4, <3>5 DEF InLine, AtMost
    <3>7. \A i \in Live(c)' : lastLive'[c] <= send'[c][i].snap
      BY <3>1, <3>2, <3>3, <3>4, <3>5 DEF InLine, AtMost
    <3>8. ASSUME NEW x \in Nat, AtMost(c, x), first <= x PROVE AtMost(c, x)'
      BY <3>1, <3>2, <3>3, <3>5, <3>8 DEF AtMost
    <3>9. AtMost(c, Latest)'
      <4>1. AtMost(c, Latest) /\ first <= Latest
        BY <2>1, <3>4 DEF InLine, QueueInLine
      <4> QED BY <1>0, <1>1, <2>2, <3>8, <4>1 DEF AtMost
    <3>10. \A k \in 1 .. Len(broadcast') : AtMost(c, broadcast[k])'
      <4> TAKE k \in 1 .. Len(broadcast')
      <4>1. k + 1 \in 1 .. Len(broadcast) /\ 1 \in 1 .. Len(broadcast) /\ 1 < k + 1
        BY <1>0, <2>3
      <4>2. broadcast'[k] = broadcast[k + 1] /\ broadcast[k + 1] \in Nat
        BY <1>0, <2>3, <4>1
      <4>3. AtMost(c, broadcast[k + 1]) /\ first <= broadcast[k + 1]
        BY <2>1, <3>1, <3>4, <4>1 DEF InLine, QueueInLine
      <4> QED BY <3>8, <4>2, <4>3 DEF AtMost
    <3> QED BY <3>6, <3>7, <3>9, <3>10 DEF InLine
  <2> QED BY <2>4, <2>5, <2>6, <2>7
<1>6. CASE HubTick
  <2>1. /\ broadcast' = Append(broadcast, Latest) /\ Latest \in Snapshots
        /\ UNCHANGED <<bufferVars, members, send, reader, hist, lastLive>>
    <3>1. count \in Nat /\ count # 0
      BY <1>6 DEF HubTick, Latest, HubInv, BufferInv, BufferTypeOK, BufferAssumption
    <3>2. Latest \in Snapshots
      BY <3>1, HistorySeq DEF HubInv
    <3> QED BY <1>6, <3>2 DEF HubTick, channels, history, browser
  <2>2. /\ Len(broadcast') = Len(broadcast) + 1 /\ broadcast'[Len(broadcast) + 1] = Latest
        /\ \A k \in 1 .. Len(broadcast) : broadcast'[k] = broadcast[k]
    BY <2>1, QueuedBroadcasts, AppendProperties
  <2>3. QueueInLine'
    BY <1>0, <1>1, <2>1, <2>2 DEF QueueInLine
  <2>4. \A c \in Clients : InLine(c)'
    BY <1>0, <1>1, <2>1, <2>2, LeftAlone
  <2> QED BY <2>1, <2>3, <2>4 DEF Unregistered
<1>7. CASE HubStop \/ Cancel \/ UNCHANGED vars
  <2>1. UNCHANGED <<bufferVars, members, broadcast, send, reader, hist, lastLive>>
    BY <1>7 DEF HubStop, Cancel, vars, loop, channels, history, browser
  <2> QED BY <1>2, <1>3, <2>1 DEF Unregistered
<1>8. ASSUME NEW c \in Clients, HubRegister(c) PROVE OrderInv'
  <2>1. /\ UNCHANGED <<bufferVars, broadcast, send, lastLive>>
        /\ reader[c] = "register" /\ members' = members \cup {c}
        /\ \A d \in Clients : d # c => reader'[d] = reader[d] /\ hist'[d] = hist[d]
        /\ reader'[c] = "run"
    BY <1>8 DEF HubRegister, channels, browser, HubInv, GoroutinesTypeOK
  <2>2. \A d \in Clients : Unregistered(d)'
    BY <2>1 DEF Unregistered
  <2>3. \A d \in Clients : d # c => InLine(d)'
    BY <1>3, <2>1
  <2>4. Len(send[c]) = 0 /\ lastLive[c] = 0
    BY <2>1, EmptySeq DEF Unregistered, WsHubAssumption
  <2>5. Live(c)' = {} /\ lastLive'[c] = 0
    BY <2>1, <2>4 DEF Live
  <2>6. InLine(c)'
    BY <1>0, <1>1, <2>1, <2>5 DEF InLine, AtMost
  <2> QED BY <1>2, <2>1, <2>2, <2>3, <2>6
<1>9. ASSUME NEW c \in Clients, HubUnregister(c) PROVE OrderInv'
  <2>1. /\ UNCHANGED <<bufferVars, broadcast, send, lastLive, hist>> /\ members' = members \ {c}
        /\ \A d \in Clients : reader'[d] = reader[d] \/ reader'[d] = "done"
    BY <1>9 DEF HubUnregister, history, browser, HubInv, GoroutinesTypeOK
  <2> QED BY <1>2, <1>3, <2>1 DEF Unregistered
<1>10. ASSUME NEW c \in Clients, ReadHistory(c) PROVE OrderInv'
  <2>1. /\ UNCHANGED <<bufferVars, broadcast, members, send, lastLive, reader>> /\ hist[c] = "read"
        /\ \A d \in Clients : d # c => hist'[d] = hist[d]
    BY <1>10 DEF ReadHistory, loop, channels, browser, HubInv, GoroutinesTypeOK
  <2> QED BY <1>2, <1>3, <2>1 DEF Unregistered
<1>11. ASSUME NEW c \in Clients, SendHistory(c) PROVE OrderInv'
  <2> DEFINE m == [type |-> "history", snap |-> histSnap[c]]
  <2>1. /\ UNCHANGED <<bufferVars, broadcast, members, lastLive, reader>> /\ hist[c] = "send"
        /\ \A d \in Clients : d # c => hist'[d] = hist[d] /\ send'[d] = send[d]
        /\ send'[c] \in {send[c], Append(send[c], m)}
    BY <1>11 DEF SendHistory, browser, HubInv, GoroutinesTypeOK, ChannelsTypeOK
  <2>2. \A d \in Clients : d # c => Unregistered(d)' /\ InLine(d)'
    BY <1>3, <2>1 DEF Unregistered
  <2>3. Unregistered(c)'
    BY <2>1 DEF Unregistered
  <2>4. InLine(c)'
    <3>1. CASE send'[c] = send[c]
      BY <1>3, <2>1, <3>1
    <3>2. CASE send'[c] = Append(send[c], m)
      <4> DEFINE n == Len(send[c])
      <4>1. m \in Message /\ m.type # "metrics"
        BY <2>1 DEF Message, HubInv, GoroutinesTypeOK
      <4> HIDE DEF m
      <4>2. /\ n \in Nat /\ Len(send'[c]) = n + 1 /\ send'[c][n + 1] = m
            /\ \A i \in 1 .. n : send'[c][i] = send[c][i]
        BY <3>2, <4>1, Queued, AppendProperties
      <4>3. Live(c)' = Live(c) /\ \A i \in Live(c) : send'[c][i] = send[c][i]
        BY <4>1, <4>2 DEF Live
      <4> QED BY <1>1, <2>1, <4>3 DEF InLine, AtMost
    <3> QED BY <2>1, <3>1, <3>2
  <2> QED BY <1>2, <2>1, <2>2, <2>3, <2>4
<1>12. ASSUME NEW c \in Clients, WriteMessage(c) PROVE OrderInv'
  <2> DEFINE first == Head(send[c])
             n == Len(send[c])
  <2>1. /\ UNCHANGED <<bufferVars, broadcast, members, reader, hist>> /\ send[c] # << >>
        /\ send' = [send EXCEPT ![c] = Tail(@)]
        /\ \A d \in Clients : d # c => lastLive'[d] = lastLive[d]
        /\ lastLive'[c] \in {lastLive[c], first.snap}
        /\ lastLive'[c] # lastLive[c] => first.type = "metrics"
    BY <1>12 DEF WriteMessage, Onmessage, loop, history, HubInv, BrowsersTypeOK
  <2>2. \A d \in Clients : d # c => send'[d] = send[d]
    BY <2>1 DEF HubInv, ChannelsTypeOK
  <2>3. \A d \in Clients : d # c => Unregistered(d)' /\ InLine(d)'
    BY <1>3, <2>1, <2>2 DEF Unregistered
  <2>4. Unregistered(c)'
    BY <2>1 DEF Unregistered
  <2>5. /\ n \in Nat /\ n >= 1 /\ first = send[c][1] /\ send'[c] = Tail(send[c])
        /\ Len(send'[c]) = n - 1
        /\ \A i \in 1 .. n - 1 : send'[c][i] = send[c][i + 1]
        /\ \A i \in 1 .. n : send[c][i].snap \in Nat
        /\ lastLive[c] \in Nat
    <3>1. send[c] \in Seq(Message) /\ send'[c] = Tail(send[c])
      BY <2>1, Queued DEF HubInv, ChannelsTypeOK
    <3>2. /\ n \in Nat /\ n # 0 /\ lastLive[c] \in Nat
          /\ \A i \in 1 .. n : send[c][i].snap \in Nat
      BY <2>1, <3>1, Queued, EmptySeq
    <3>3. /\ Len(Tail(send[c])) = n - 1 /\ first = send[c][1]
          /\ \A i \in 1 .. Len(Tail(send[c])) : Tail(send[c])[i] = send[c][i + 1]
      BY <2>1, <3>1, HeadTailProperties
    <3> QED BY <3>1, <3>2, <3>3
  <2> HIDE DEF first, n
  <2>6. \A i \in Live(c)' : i \in 1 .. n - 1 /\ i + 1 \in Live(c) /\ i + 1 > 1
    BY <2>5 DEF Live, n
  <2>7. first.type = "metrics" => 1 \in Live(c)
    BY <2>5 DEF Live, n
  <2>8. \A i \in Live(c) : i \in 1 .. n
    BY DEF Live, n
  <2>9. InLine(c)
    OBVIOUS
  <2>10. \A i, j \in Live(c)' : i < j => send'[c][i].snap <= send'[c][j].snap
    BY <2>5, <2>6, <2>9 DEF InLine
  <2>11. \A i \in Live(c)' : lastLive'[c] <= send'[c][i].snap
    <3>1. CASE lastLive'[c] = lastLive[c]
      BY <2>5, <2>6, <2>9, <3>1 DEF InLine
    <3>2. CASE lastLive'[c] # lastLive[c]
      BY <2>1, <2>5, <2>6, <2>7, <2>9, <3>2 DEF InLine
    <3> QED BY <3>1, <3>2
  <2>12. ASSUME NEW x, AtMost(c, x), x' = x PROVE lastLive'[c] <= x /\ \A i \in Live(c)' : send'[c][i].snap <= x
    <3>1. lastLive'[c] <= x
      BY <2>1, <2>5, <2>7, <2>12 DEF AtMost
    <3> QED BY <2>5, <2>6, <2>12, <3>1 DEF AtMost
  <2>13. AtMost(c, Latest)' /\ (c \in members' => \A k \in 1 .. Len(broadcast') : AtMost(c, broadcast[k])')
    BY <1>1, <2>1, <2>9, <2>12 DEF InLine, AtMost
  <2> QED BY <1>2, <2>1, <2>3, <2>4, <2>10, <2>11, <2>13 DEF InLine
<1>13. ASSUME NEW c \in Clients,
              WriterEnds(c) \/ ReaderEnds(c) \/ Connect(c) \/ PeerCloses(c) \/ PeerSilent(c)
       PROVE  OrderInv'
  <2>1. UNCHANGED <<bufferVars, members, broadcast, send, hist, lastLive>>
    BY <1>13 DEF WriterEnds, ReaderEnds, Connect, PeerCloses, PeerSilent, loop, channels, history, browser
  <2>2. \A d \in Clients : reader'[d] \in {"off", "register"} => reader[d] \in {"off", "register"}
    BY <1>13 DEF WriterEnds, ReaderEnds, Connect, PeerCloses, PeerSilent, HubInv, GoroutinesTypeOK
  <2> QED BY <1>2, <1>3, <2>1, <2>2 DEF Unregistered
<1>14. ASSUME NEW c \in Clients, Serve(c) \/ Environment(c) PROVE OrderInv'
  BY <1>8, <1>9, <1>10, <1>11, <1>12, <1>13, <1>14 DEF Serve, Environment
<1> QED BY <1>4, <1>5, <1>6, <1>7, <1>14 DEF Next

\* Through both channels, whatever is dropped for a slow client and whenever it registers, a browser
\* receives live snapshots in the order in which they were collected, and a history never passes
\* for a live one.
THEOREM LiveStreamInOrder == Spec => []LiveInOrder
<1>1. HubInv /\ OrderInv => LiveInOrder
  <2> SUFFICES ASSUME HubInv, OrderInv, NEW c \in Clients,
                      NEW a \in LiveAhead(c), NEW b \in LiveAhead(c), a[1] < b[1]
               PROVE  a[2] <= b[2]
    BY DEF LiveInOrder
  <2> DEFINE n == Len(send[c])
             places == {j \in DOMAIN send[c] : send[c][j].type = "metrics"}
             queued == IF c \in members THEN 1 .. Len(broadcast) ELSE {}
             far == SendCap + BroadcastCap + 1
  <2>1. /\ n \in Nat /\ n <= SendCap /\ SendCap \in Nat /\ BroadcastCap \in Nat
        /\ Len(broadcast) \in Nat /\ Len(broadcast) <= BroadcastCap
        /\ \A i \in 1 .. n : send[c][i].snap \in Nat
        /\ lastLive[c] \in Nat /\ Latest \in Nat
        /\ \A k \in 1 .. Len(broadcast) : broadcast[k] \in Nat
    BY Queued, QueuedBroadcasts, LatestNumber DEF HubInv, ChannelsTypeOK, LoopTypeOK, WsHubAssumption
  <2>2. places = Live(c) /\ Live(c) \subseteq 1 .. n /\ DOMAIN broadcast = 1 .. Len(broadcast)
    BY Queued, QueuedBroadcasts, LenProperties DEF Live
  <2>3. ASSUME NEW x \in LiveAhead(c)
        PROVE  \/ x = <<0, lastLive[c]>> \/ x = <<far, Latest>>
               \/ \E i \in Live(c) : x = <<i, send[c][i].snap>>
               \/ \E k \in queued : x = <<SendCap + k, broadcast[k]>>
    BY <2>2, <2>3 DEF LiveAhead
  <2> HIDE DEF n, places, far
  <2>4. InLine(c) /\ QueueInLine
    BY DEF OrderInv
  <2>5. far \in Nat /\ far > SendCap + Len(broadcast) /\ far > n
    BY <2>1 DEF far
  <2>6. CASE a = <<0, lastLive[c]>>
    BY <2>1, <2>2, <2>3, <2>4, <2>6 DEF InLine, AtMost
  <2>7. ASSUME NEW i \in Live(c), a = <<i, send[c][i].snap>> PROVE a[2] <= b[2]
    BY <2>1, <2>2, <2>3, <2>4, <2>7 DEF InLine, AtMost
  <2>8. ASSUME NEW k \in queued, a = <<SendCap + k, broadcast[k]>> PROVE a[2] <= b[2]
    BY <2>1, <2>2, <2>3, <2>4, <2>5, <2>8 DEF QueueInLine
  <2>9. CASE a = <<far, Latest>>
    BY <2>1, <2>2, <2>3, <2>5, <2>9
  <2> QED BY <2>3, <2>6, <2>7, <2>8, <2>9
<1> QED BY <1>1, HubInit, HubStep, OrderInit, OrderStep, PTL DEF Spec, SafeSpec
=============================================================================
