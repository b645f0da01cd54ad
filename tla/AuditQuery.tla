----------------------------- MODULE AuditQuery -----------------------------
(***************************************************************************)
(* Paging through the audit log (internal/audit/service.go, Query, and     *)
(* handler/pim.go, ListAudit) while other handlers append to it.  A client *)
(* asks for page after page as long as has_more is set.  Query runs two    *)
(* statements, a list with LIMIT and OFFSET and a count, and entries may   *)
(* arrive between them.                                                    *)
(***************************************************************************)
EXTENDS Integers, Sequences, FiniteSets, SequencesExt

CONSTANTS
  DefaultPerPage,  \* 50
  MaxPerPage,      \* 200
  MaxEntries       \* bound on the rows of audit_log

ASSUME AuditAssumption ==
  /\ DefaultPerPage \in Nat \ {0} /\ MaxPerPage \in Nat /\ DefaultPerPage <= MaxPerPage
  /\ MaxEntries \in Nat

VARIABLES
  view,      \* the rows that pass the client's filter, newest first
  others,    \* how many rows do not pass it
  filtered,  \* a user_id or severity filter is set
  walk,      \* where the client and the handler are
  page,
  perPage,
  rows,      \* what the list statement returned
  seen,      \* the entries the client has been given
  present    \* history: the rows of view when the client started

auditVars == <<view, others, filtered, walk, page, perPage, rows, seen, present>>

Entries == 1 .. MaxEntries

AuditTypeOK ==
  /\ view \in Seq(Entries)
  /\ others \in 0 .. MaxEntries
  /\ filtered \in BOOLEAN
  /\ walk \in {"idle", "list", "count", "done"}
  /\ page \in Nat \ {0}
  /\ perPage \in 1 .. MaxPerPage
  /\ rows \in Seq(Entries) /\ Len(rows) <= perPage
  /\ seen \subseteq Entries
  /\ present \subseteq Entries

AuditInit ==
  /\ view = << >> /\ others = 0
  /\ filtered \in BOOLEAN
  /\ walk = "idle" /\ page = 1 /\ perPage = DefaultPerPage
  /\ rows = << >>
  /\ seen = {} /\ present = {}

\* Rows are ordered by created_at alone.  A new row is usually the first; within its second, and when the
\* wall clock has been set back, it may land anywhere, but it never reorders the others.
LogEntry ==
  /\ Len(view) + others < MaxEntries
  /\ \/ /\ \E p \in 1 .. Len(view) + 1 : view' = InsertAt(view, p, Len(view) + 1)
        /\ UNCHANGED others
     \/ /\ filtered
        /\ others' = others + 1
        /\ UNCHANGED view
  /\ UNCHANGED <<filtered, walk, page, perPage, rows, seen, present>>

PageOf(p) == IF p < 1 THEN 1 ELSE p

PerPageOf_NoUpper(n) == IF n < 1 THEN DefaultPerPage ELSE n
PerPageOf(n) ==
  IF n < 1 THEN DefaultPerPage ELSE IF n > MaxPerPage THEN MaxPerPage ELSE n

\* The client may leave the parameters out, which Atoi turns into 0.
AskFirst ==
  /\ walk = "idle"
  /\ \E p \in {0, 1}, n \in 0 .. MaxPerPage + 1 :
       /\ page' = PageOf(p)
       /\ perPage' = PerPageOf(n)
  /\ walk' = "list"
  /\ present' = Range(view)
  /\ UNCHANGED <<view, others, filtered, rows, seen>>

Offset == (page - 1) * perPage

ListEntries ==
  /\ walk = "list"
  /\ rows' = SubSeq(view, Offset + 1,
                    IF Offset + perPage < Len(view) THEN Offset + perPage ELSE Len(view))
  /\ walk' = "count"
  /\ UNCHANGED <<view, others, filtered, page, perPage, seen, present>>

\* The total counts the rows of every user and severity.
HasMore == Offset + Len(rows) < Len(view) + others

CountEntries ==
  /\ walk = "count"
  /\ seen' = seen \cup Range(rows)
  /\ rows' = << >>
  /\ IF HasMore THEN walk' = "list" /\ page' = page + 1
                ELSE walk' = "done" /\ UNCHANGED page
  /\ UNCHANGED <<view, others, filtered, perPage, present>>

\* A statement fails, the handler answers 500 and the client asks for the page again.
QueryFails ==
  /\ walk = "count"
  /\ walk' = "list"
  /\ rows' = << >>
  /\ UNCHANGED <<view, others, filtered, page, perPage, seen, present>>

AuditNext == LogEntry \/ AskFirst \/ ListEntries \/ CountEntries \/ QueryFails

----------------------------------------------------------------------------
(* Properties *)

\* A client that pages to the end has been given every entry that existed when it started, whatever was
\* logged meanwhile: new entries push old ones to later pages, never to earlier ones.
NothingSkipped == walk = "done" => present \subseteq seen
=============================================================================
