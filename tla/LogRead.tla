------------------------------ MODULE LogRead ------------------------------
(***************************************************************************)
(* Reading the log (internal/logs/reader.go, Read, and handler/logs.go,    *)
(* GetLogs): the same lines are asked for through journalctl and from the  *)
(* file that syslog writes, with a number of lines, a severity and a       *)
(* search text.  A request changes nothing, so Read is an operator on the  *)
(* log as it is.  Journalctl, which is not part of the repository, says    *)
(* what the options --lines and --priority do.                             *)
(***************************************************************************)
EXTENDS Integers, Sequences, FiniteSets

CONSTANTS
  DefaultLines,   \* 100
  MaxQueryLines,  \* 500
  LogLength       \* bound on the log

ASSUME LogAssumption ==
  /\ DefaultLines \in Nat \ {0} /\ MaxQueryLines \in Nat /\ DefaultLines <= MaxQueryLines
  /\ LogLength \in Nat

VARIABLE log      \* the lines of the system, oldest first

\* Of the four severities two suffice: a bad one and another.
Severities == {"error", "info"}
AnySeverity == "any"

\* journald has a line's priority, the file only its words, which may tell otherwise.  hit is where a line contains
\* the search text.  Some lines are too short for a time stamp, are binary, which journalctl does not print as a
\* string, or are too long for the buffer of a bufio.Scanner.
LogLines ==
  [priority : Severities, words : Severities, hit : {"message", "unit", "nowhere"}, kind : {"entry"}]
    \cup [priority : {"info"}, words : {"info"}, hit : {"message"}, kind : {"short", "binary", "long"}]

Queries == [lines : 0 .. MaxQueryLines + 1, severity : Severities \cup {AnySeverity}, search : BOOLEAN]

LogTypeOK == log \in Seq(LogLines) /\ Len(log) <= LogLength

LogInit == log = << >>

LogNext == Len(log) < LogLength /\ \E line \in LogLines : log' = Append(log, line)

\* An answer is told by the positions of its lines: every reader keeps the order of the log.
Positions == 1 .. Len(log)

\* The last n of some lines.
LastN(lineSet, n) == {i \in lineSet : Cardinality({j \in lineSet : j > i}) < n}

\* GetLogs and Read; Atoi turns a missing number into 0.
ClampLines(n) ==
  IF n <= 0 THEN DefaultLines ELSE IF n > MaxQueryLines THEN MaxQueryLines ELSE n

\* severityToPriority: --priority=p shows p and everything worse, and --lines counts what it shows.
PriorityShows(asked) == IF asked = "error" THEN {"error"} ELSE Severities

Journalctl(q) ==
  LastN({i \in Positions : log[i].priority \in PriorityShows(q.severity)}, ClampLines(q.lines))

\* parseJournaldJSON reports a line that does not fit and passes over one that it cannot read; filterBySearch looks
\* at message and unit.
Matches(q, i) ==
  /\ log[i].kind # "binary"
  /\ q.search => log[i].hit # "nowhere"

readJournald(q) ==
  LET shown == Journalctl(q)
  IN  IF \E i \in shown : log[i].kind = "long"
      THEN [error |-> TRUE, entries |-> {}]
      ELSE [error |-> FALSE, entries |-> {i \in shown : Matches(q, i)}]

\* The loop over scanner.Scan ends at a line that does not fit, and nobody asks scanner.Err.
Scanned == {i \in Positions : \A j \in 1 .. i : log[j].kind # "long"}

\* parseSyslogLine, which judges by the words, and the filters.
Kept(q, i) ==
  /\ log[i].kind # "short"
  /\ q.severity \in {AnySeverity, log[i].words}
  /\ q.search => log[i].hit = "message"

readLogFile(q) ==
  [error |-> FALSE, entries |-> {i \in LastN(Scanned, ClampLines(q.lines)) : Kept(q, i)}]

----------------------------------------------------------------------------
(* Properties *)

Within(few, many) == few.entries \subseteq many.entries

\* Who asks for more lines is shown no fewer, unless the answer is an error.
MoreLinesShowMore ==
  \A q \in Queries, n \in 1 .. MaxQueryLines + 1 :
    n <= q.lines =>
      LET fewer == [q EXCEPT !.lines = n]
      IN  /\ Within(readLogFile(fewer), readLogFile(q))
          /\ ~readJournald(q).error => Within(readJournald(fewer), readJournald(q))

\* A search, and in a file a severity, only leaves out lines of the answer without it.  (journalctl chooses by
\* severity before it counts lines, and so digs deeper.)
FiltersNarrow ==
  \A q \in Queries :
    LET all == [q EXCEPT !.search = FALSE]
    IN  /\ Within(readLogFile(q), readLogFile([all EXCEPT !.severity = AnySeverity]))
        /\ readJournald(q).error = readJournald(all).error
        /\ Within(readJournald(q), readJournald(all))

\* The answers to related queries fit together.
ReadSound == log # << >> => MoreLinesShowMore /\ FiltersNarrow
=============================================================================
