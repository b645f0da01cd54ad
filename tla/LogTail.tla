------------------------------ MODULE LogTail ------------------------------
(***************************************************************************)
(* The live log (internal/logs/tail.go, Tail and tailDemo, and             *)
(* handler/logs.go, TailLogs): journalctl writes lines into a pipe, a      *)
(* reader goroutine sends the entries to a channel, the handler writes     *)
(* them to the websocket.                                                  *)
(*                                                                         *)
(* The handler has hijacked its connection, so the request context is not  *)
(* cancelled when the browser leaves: it is done when the handler returns. *)
(* The case ctx.Done() of the handler's select is therefore never taken.   *)
(***************************************************************************)
EXTENDS Integers, Sequences, Functions

CONSTANTS
  TailCap,   \* capacity of tailCh, 256 in the code
  PipeCap,   \* lines the pipe holds before journalctl blocks
  MaxLines   \* bound on the lines of a behaviour

ASSUME TailAssumption == TailCap \in Nat /\ PipeCap \in Nat /\ MaxLines \in Nat

VARIABLES
  lines,       \* the kinds of the lines written so far
  scanned,     \* how many the reader has taken
  reader,      \* the goroutine that fills tailCh
  tailCh,      \* line numbers
  journalctl,
  handler,
  held,        \* the line the handler is writing, 0 if none
  client,      \* "gone" has left, "reset" has left and refuses what is sent
  delivered    \* the lines the browser got

tailVars == <<lines, scanned, reader, tailCh, journalctl, handler, held, client, delivered>>

\* An entry, a line that is blank or no JSON, a line longer than the scanner's buffer.
Kinds == {"entry", "junk", "long"}

TailTypeOK ==
  /\ lines \in Seq(Kinds) /\ Len(lines) <= MaxLines
  /\ scanned \in 0 .. Len(lines)
  /\ reader \in {"none", "scan", "send", "demo", "ended"}
  /\ tailCh \in Seq(1 .. Len(lines)) /\ Len(tailCh) <= TailCap
  /\ journalctl \in {"none", "running", "exited", "killed"}
  /\ handler \in {"start", "select", "write", "returned"}
  /\ held \in 0 .. Len(lines)
  /\ client \in {"reading", "stalled", "gone", "reset"}
  /\ delivered \in Seq(1 .. Len(lines))

TailInit ==
  /\ lines = << >> /\ scanned = 0 /\ reader = "none" /\ tailCh = << >>
  /\ journalctl = "none" /\ handler = "start" /\ held = 0
  /\ client = "reading" /\ delivered = << >>

\* Tail: journalctl starts, is not installed, or cannot be started.
StartTail ==
  /\ handler = "start"
  /\ \/ journalctl' = "running" /\ reader' = "scan" /\ handler' = "select"
     \/ reader' = "demo" /\ handler' = "select" /\ UNCHANGED journalctl
     \/ handler' = "returned" /\ UNCHANGED <<journalctl, reader>>
  /\ UNCHANGED <<lines, scanned, tailCh, held, client, delivered>>

JournalWrites ==
  /\ journalctl = "running"
  /\ Len(lines) < MaxLines
  /\ Len(lines) - scanned < PipeCap
  /\ \E k \in Kinds : lines' = Append(lines, k)
  /\ UNCHANGED <<scanned, reader, tailCh, journalctl, handler, held, client, delivered>>

JournalExits ==
  /\ journalctl = "running"
  /\ journalctl' = "exited"
  /\ UNCHANGED <<lines, scanned, reader, tailCh, handler, held, client, delivered>>

\* scanner.Scan: the next line, or the end of the loop at a line that is too long or at the end of the pipe.
Scan ==
  /\ reader = "scan"
  /\ \/ /\ scanned < Len(lines)
        /\ scanned' = scanned + 1
        /\ reader' = CASE lines[scanned + 1] = "entry" -> "send"
                       [] lines[scanned + 1] = "junk" -> "scan"
                       [] lines[scanned + 1] = "long" -> "ended"
     \/ /\ scanned = Len(lines)
        /\ journalctl # "running"
        /\ reader' = "ended"
        /\ UNCHANGED scanned
  /\ UNCHANGED <<lines, tailCh, journalctl, handler, held, client, delivered>>

ctxDone == handler = "returned"

\* The reader's select; when both cases are ready either may be taken.
ReaderSend_Drop ==
  /\ reader = "send"
  /\ \/ Len(tailCh) < TailCap /\ tailCh' = Append(tailCh, scanned) /\ reader' = "scan"
     \/ Len(tailCh) = TailCap /\ reader' = "scan" /\ UNCHANGED tailCh
     \/ ctxDone /\ reader' = "ended" /\ UNCHANGED tailCh
  /\ UNCHANGED <<lines, scanned, journalctl, handler, held, client, delivered>>
ReaderSend ==
  /\ reader = "send"
  /\ \/ Len(tailCh) < TailCap /\ tailCh' = Append(tailCh, scanned) /\ reader' = "scan"
     \/ ctxDone /\ reader' = "ended" /\ UNCHANGED tailCh
  /\ UNCHANGED <<lines, scanned, journalctl, handler, held, client, delivered>>

\* The goroutine that waits for the context.
Kill ==
  /\ ctxDone
  /\ journalctl \in {"running", "exited"}
  /\ journalctl' = "killed"
  /\ UNCHANGED <<lines, scanned, reader, tailCh, handler, held, client, delivered>>

\* tailDemo, which drops an entry that does not fit.
DemoTick ==
  /\ reader = "demo"
  /\ Len(lines) < MaxLines
  /\ lines' = Append(lines, "entry")
  /\ scanned' = scanned + 1
  /\ tailCh' = IF Len(tailCh) < TailCap THEN Append(tailCh, scanned + 1) ELSE tailCh
  /\ UNCHANGED <<reader, journalctl, handler, held, client, delivered>>

DemoEnds ==
  /\ reader = "demo"
  /\ ctxDone
  /\ reader' = "ended"
  /\ UNCHANGED <<lines, scanned, tailCh, journalctl, handler, held, client, delivered>>

Receive ==
  /\ handler = "select"
  /\ tailCh # << >>
  /\ held' = Head(tailCh)
  /\ tailCh' = Tail(tailCh)
  /\ handler' = "write"
  /\ UNCHANGED <<lines, scanned, reader, journalctl, client, delivered>>

\* WriteMessage has no deadline: a client that does not read holds it up.  The first write to a client that has
\* left goes into the void, the next one fails.
WriteMessage_IgnoreError ==
  /\ handler = "write"
  /\ held' = 0 /\ handler' = "select"
  /\ \/ client = "reading" /\ delivered' = Append(delivered, held) /\ UNCHANGED client
     \/ client = "gone" /\ client' = "reset" /\ UNCHANGED delivered
     \/ client = "reset" /\ UNCHANGED <<client, delivered>>
  /\ UNCHANGED <<lines, scanned, reader, tailCh, journalctl>>
WriteMessage ==
  /\ handler = "write"
  /\ held' = 0
  /\ \/ client = "reading" /\ handler' = "select" /\ delivered' = Append(delivered, held) /\ UNCHANGED client
     \/ client = "gone" /\ handler' = "select" /\ client' = "reset" /\ UNCHANGED delivered
     \/ client = "reset" /\ handler' = "returned" /\ UNCHANGED <<client, delivered>>
  /\ UNCHANGED <<lines, scanned, reader, tailCh, journalctl>>

ClientChanges ==
  /\ \/ client = "reading" /\ client' = "stalled"
     \/ client = "stalled" /\ client' = "reading"
     \/ client \in {"reading", "stalled"} /\ client' \in {"gone", "reset"}
  /\ UNCHANGED <<lines, scanned, reader, tailCh, journalctl, handler, held, delivered>>

TailNext ==
  \/ StartTail \/ Scan \/ ReaderSend \/ Kill \/ DemoEnds \/ Receive \/ WriteMessage
  \/ JournalWrites \/ JournalExits \/ DemoTick \/ ClientChanges

----------------------------------------------------------------------------
(* Properties *)

\* With journalctl the browser gets every entry in the order of the journal and without a gap: the reader waits for
\* room in the channel.  Only the demo mode drops entries.
TailInOrder ==
  journalctl # "none" =>
    /\ \A i, j \in DOMAIN delivered : i < j => delivered[i] < delivered[j]
    /\ \A d \in Range(delivered) :
         {n \in 1 .. d : lines[n] = "entry"} = {n \in Range(delivered) : n <= d}

\* A browser that has left is noticed by the second entry at the latest, and everything started for it ends.
\* Nothing weaker than an entry is enough: on a quiet journal the handler waits for ever.
LeaverReleased ==
  client \in {"gone", "reset"} /\ Len(tailCh) >= 2
    ~> handler = "returned" /\ reader \in {"none", "ended"} /\ journalctl # "running"
=============================================================================
