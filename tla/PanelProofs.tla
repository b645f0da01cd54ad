---------------------------- MODULE PanelProofs ----------------------------
(***************************************************************************)
(* Proofs about the logs, which are paging through the audit log, the live *)
(* log and the answers of the stored log, and about the parts of the panel *)
(* side by side.  For any page sizes, capacities and lengths, and any      *)
(* values of the constants of the parts.                                   *)
(***************************************************************************)
EXTENDS MCPanel, ServerProofs, PagesProofs

AuditSpec == AuditInit /\ [][AuditNext]_auditVars
TailSpec == TailInit /\ [][TailNext]_tailVars
LogSpec == LogInit /\ [][LogNext]_log

----------------------------------------------------------------------------
(* Paging through the audit log *)

USE AuditAssumption

\* The entries of the view past its first k.
Beyond(k) == {view[i] : i \in {j \in DOMAIN view : j > k}}

\* What existed at the start has been given, or is on the page in hand, or comes later.
WalkFits ==
  /\ walk \in {"list", "count"} => present \subseteq seen \cup Beyond(Offset)
  /\ walk = "count" => present \subseteq seen \cup Range(rows) \cup Beyond(Offset + perPage)
  /\ walk # "count" => rows = << >>
  /\ NothingSkipped

AuditInv == AuditTypeOK /\ Len(view) + others <= MaxEntries /\ WalkFits

\* A row that is inserted moves the others back by one place at most.
LEMMA InsertMovesBack ==
  ASSUME NEW S, NEW q \in Seq(S), NEW p \in 1 .. Len(q) + 1, NEW x \in S
  PROVE  /\ InsertAt(q, p, x) \in Seq(S)
         /\ Len(InsertAt(q, p, x)) = Len(q) + 1
         /\ \A i \in 1 .. Len(q) : InsertAt(q, p, x)[IF i < p THEN i ELSE i + 1] = q[i]
<1> DEFINE n == Len(q)
           a == SubSeq(q, 1, p - 1)
           b == SubSeq(q, p, n)
           ax == a \o <<x>>
           r == InsertAt(q, p, x)
<1>1. n \in Nat /\ p \in 1 .. n + 1 /\ \A i \in 1 .. n : q[i] \in S
  BY LenProperties, ElementOfSeq
<1>2. p \in Int /\ p - 1 \in Int /\ n \in Int /\ 1 \in Int
  BY <1>1
<1>3. /\ a \in Seq(S) /\ Len(a) = (IF 1 <= p - 1 THEN p - 1 - 1 + 1 ELSE 0)
      /\ \A i \in 1 .. (p - 1) - 1 + 1 : a[i] = q[1 + i - 1]
  <2>1. \A i \in 1 .. p - 1 : q[i] \in S
    BY <1>1
  <2> HIDE DEF n
  <2> QED BY <1>2, <2>1, SubSeqProperties
<1>4. /\ b \in Seq(S) /\ Len(b) = (IF p <= n THEN n - p + 1 ELSE 0)
      /\ \A i \in 1 .. n - p + 1 : b[i] = q[p + i - 1]
  <2>1. \A i \in p .. n : q[i] \in S
    BY <1>1
  <2> HIDE DEF n
  <2> QED BY <1>2, <2>1, SubSeqProperties
<1>5. <<x>> \in Seq(S) /\ Len(<<x>>) = 1
  OBVIOUS
<1>6. /\ ax \in Seq(S) /\ Len(ax) = Len(a) + 1
      /\ \A i \in 1 .. Len(a) + 1 : ax[i] = IF i <= Len(a) THEN a[i] ELSE <<x>>[i - Len(a)]
  <2> HIDE DEF a
  <2> QED BY <1>3, <1>5, ConcatProperties
<1>7. /\ r \in Seq(S) /\ Len(r) = Len(ax) + Len(b)
      /\ \A i \in 1 .. Len(ax) + Len(b) : r[i] = IF i <= Len(ax) THEN ax[i] ELSE b[i - Len(ax)]
  <2>1. r = ax \o b
    BY DEF InsertAt
  <2> HIDE DEF ax, b, r
  <2> QED BY <1>4, <1>6, <2>1, ConcatProperties
<1> DEFINE la == Len(a)
           lb == Len(b)
           lx == Len(ax)
<1>8. /\ la = (IF 1 <= p - 1 THEN p - 1 - 1 + 1 ELSE 0) /\ lb = (IF p <= n THEN n - p + 1 ELSE 0)
      /\ lx = la + 1 /\ Len(r) = lx + lb
  BY <1>3, <1>4, <1>6, <1>7
<1> HIDE DEF n, a, b, ax, r, la, lb, lx
<1>9. la = p - 1 /\ lb = n - p + 1 /\ lx = p /\ Len(r) = n + 1
  BY <1>1, <1>8
<1>10. ASSUME NEW i \in 1 .. n PROVE r[IF i < p THEN i ELSE i + 1] = q[i]
  <2>1. CASE i < p
    <3>1. /\ i \in 1 .. (p - 1) - 1 + 1 /\ i \in 1 .. la + 1 /\ i <= la /\ i \in 1 .. lx + lb
          /\ i <= lx /\ 1 + i - 1 = i
      BY <1>1, <1>9, <2>1
    <3>2. r[i] = ax[i] /\ ax[i] = a[i] /\ a[i] = q[i]
      BY <1>3, <1>6, <1>7, <3>1 DEF la, lb, lx
    <3> QED BY <2>1, <3>2
  <2>2. CASE ~(i < p)
    <3>1. /\ i + 1 \in 1 .. lx + lb /\ ~(i + 1 <= lx) /\ i + 1 - lx = i + 1 - p
          /\ i + 1 - p \in 1 .. n - p + 1 /\ p + (i + 1 - p) - 1 = i
      BY <1>1, <1>9, <2>2
    <3>2. r[i + 1] = b[i + 1 - lx]
      BY <1>7, <3>1 DEF lb, lx
    <3>3. b[i + 1 - p] = q[p + (i + 1 - p) - 1]
      BY <1>4, <3>1
    <3> QED BY <2>2, <3>1, <3>2, <3>3
  <2> QED BY <2>1, <2>2
<1> QED BY <1>7, <1>9, <1>10 DEF r, n

\* Nobody has asked at the start.
LEMMA AuditStarts == AuditInit => AuditInv
<1> SUFFICES ASSUME AuditInit PROVE AuditInv
  OBVIOUS
<1>1. view \in Seq(Entries) /\ rows \in Seq(Entries) /\ Len(view) = 0 /\ Len(rows) = 0
  BY EmptySeq DEF AuditInit
<1>2. perPage \in 1 .. MaxPerPage /\ others \in 0 .. MaxEntries /\ Len(rows) <= perPage
  BY <1>1 DEF AuditInit
<1> QED BY <1>1, <1>2 DEF AuditInit, AuditInv, AuditTypeOK, WalkFits, NothingSkipped

\* A new entry takes nothing from the pages to come.
LEMMA LogEntryKeeps == ASSUME AuditInv, LogEntry PROVE AuditInv'
<1> USE DEF AuditInv
<1>1. UNCHANGED <<filtered, walk, page, perPage, rows, seen, present>> /\ Offset' = Offset
  BY DEF LogEntry, Offset
<1>2. Len(view) \in Nat /\ others \in Nat /\ Len(view) + others < MaxEntries
  BY LenProperties DEF AuditTypeOK, LogEntry
<1>3. /\ view' \in Seq(Entries) /\ Len(view') + others' <= MaxEntries
      /\ others' \in 0 .. MaxEntries
      /\ \A k \in Int : Beyond(k) \subseteq Beyond(k)'
  <2>1. CASE UNCHANGED view /\ others' = others + 1
    BY <1>2, <2>1 DEF AuditTypeOK, Beyond
  <2>2. ASSUME NEW p \in 1 .. Len(view) + 1, view' = InsertAt(view, p, Len(view) + 1),
               UNCHANGED others
        PROVE  /\ view' \in Seq(Entries) /\ Len(view') + others' <= MaxEntries
               /\ others' \in 0 .. MaxEntries
               /\ \A k \in Int : Beyond(k) \subseteq Beyond(k)'
    <3>1. Len(view) + 1 \in Entries
      BY <1>2 DEF Entries
    <3>2. /\ view' \in Seq(Entries) /\ Len(view') = Len(view) + 1
          /\ \A i \in 1 .. Len(view) : view'[IF i < p THEN i ELSE i + 1] = view[i]
      BY <2>2, <3>1, InsertMovesBack DEF AuditTypeOK
    <3>3. DOMAIN view = 1 .. Len(view) /\ DOMAIN view' = 1 .. Len(view) + 1
      BY <3>2, LenProperties DEF AuditTypeOK
    <3>4. ASSUME NEW k \in Int, NEW e \in Beyond(k) PROVE e \in Beyond(k)'
      <4>1. PICK i \in 1 .. Len(view) : i > k /\ e = view[i]
        BY <3>3, <3>4 DEF Beyond
      <4> DEFINE j == IF i < p THEN i ELSE i + 1
      <4>2. j \in 1 .. Len(view) + 1 /\ j > k
        BY <1>2, <3>4, <4>1
      <4>3. view'[j] = e
        BY <3>2, <4>1
      <4> HIDE DEF j
      <4> QED BY <3>3, <4>2, <4>3 DEF Beyond
    <3>5. others' \in 0 .. MaxEntries
      BY <2>2 DEF AuditTypeOK
    <3>6. Len(view') + others' <= MaxEntries
      BY <1>2, <2>2, <3>2
    <3> QED BY <3>2, <3>4, <3>5, <3>6
  <2> QED BY <2>1, <2>2 DEF LogEntry
<1>4. AuditTypeOK'
  BY <1>1, <1>3 DEF AuditTypeOK
<1>5. WalkFits'
  <2>1. walk \in {"list", "count"} => Offset \in Int
    BY DEF AuditTypeOK, Offset
  <2>2. Offset \in Int /\ Offset + perPage \in Int
    BY DEF AuditTypeOK, Offset
  <2>3. Beyond(Offset) \subseteq Beyond(Offset)'
    BY <1>1, <1>3, <2>2 DEF Beyond
  <2>4. Beyond(Offset + perPage) \subseteq Beyond(Offset + perPage)'
    BY <1>1, <1>3, <2>2 DEF Beyond
  <2> QED BY <1>1, <2>3, <2>4 DEF WalkFits, NothingSkipped
<1> QED BY <1>3, <1>4, <1>5

\* The list statement returns what lies between this page's offset and the next one's.
LEMMA ListKeeps == ASSUME AuditInv, ListEntries PROVE AuditInv'
<1> USE DEF AuditInv
<1> DEFINE n == Len(view)
           o == Offset
           last == IF o + perPage < n THEN o + perPage ELSE n
<1>1. /\ walk = "list" /\ walk' = "count" /\ rows' = SubSeq(view, o + 1, last)
      /\ UNCHANGED <<view, others, filtered, page, perPage, seen, present>> /\ Offset' = Offset
  BY DEF ListEntries, Offset
<1>2. n \in Nat /\ DOMAIN view = 1 .. n /\ \A i \in 1 .. n : view[i] \in Entries
  BY LenProperties, ElementOfSeq DEF AuditTypeOK
<1>3. o \in Nat /\ perPage \in Nat \ {0}
  <2>1. page - 1 \in Nat /\ perPage \in Nat \ {0}
    BY DEF AuditTypeOK
  <2> QED BY <2>1 DEF Offset
<1> HIDE DEF o
<1>4. last \in Int /\ o + 1 \in Int /\ last <= n /\ last <= o + perPage
  BY <1>2, <1>3
<1>5. /\ rows' \in Seq(Entries) /\ Len(rows') = (IF o + 1 <= last THEN last - (o + 1) + 1 ELSE 0)
      /\ \A i \in 1 .. last - (o + 1) + 1 : rows'[i] = view[o + 1 + i - 1]
  <2>1. \A i \in o + 1 .. last : view[i] \in Entries
    BY <1>2, <1>3, <1>4
  <2> HIDE DEF last
  <2> QED BY <1>1, <1>4, <2>1, SubSeqProperties
<1>6. AuditTypeOK'
  <2>1. Len(rows') <= perPage
    <3> HIDE DEF last
    <3> QED BY <1>3, <1>4, <1>5
  <2> QED BY <1>1, <1>5, <2>1 DEF AuditTypeOK
<1>7. Beyond(o) \subseteq Range(rows') \cup Beyond(o + perPage)
  <2> SUFFICES ASSUME NEW e \in Beyond(o), e \notin Beyond(o + perPage) PROVE e \in Range(rows')
    OBVIOUS
  <2>1. PICK i \in 1 .. n : i > o /\ e = view[i]
    BY <1>2 DEF Beyond
  <2>2. ~(i > o + perPage)
    BY <1>2, <2>1 DEF Beyond
  <2>3. /\ i - o \in 1 .. last - (o + 1) + 1 /\ o + 1 + (i - o) - 1 = i
        /\ o + 1 <= last /\ last - (o + 1) + 1 \in Nat
    BY <1>2, <1>3, <2>1, <2>2
  <2> HIDE DEF last
  <2>4. rows'[i - o] = e
    BY <1>5, <2>1, <2>3
  <2>5. i - o \in DOMAIN rows'
    BY <1>5, <2>3, LenProperties
  <2> QED BY <2>4, <2>5 DEF Range
<1>8. WalkFits'
  <2>1. present \subseteq seen \cup Beyond(o)
    BY <1>1 DEF WalkFits, o
  <2>2. Beyond(o)' = Beyond(o) /\ Beyond(o + perPage)' = Beyond(o + perPage) /\ o' = o
    BY <1>1 DEF Beyond, o
  <2> QED BY <1>1, <1>7, <2>1, <2>2 DEF WalkFits, NothingSkipped, o
<1> QED BY <1>1, <1>6, <1>8

\* After the last page nothing lies beyond it.
LEMMA CountKeeps == ASSUME AuditInv, CountEntries PROVE AuditInv'
<1> USE DEF AuditInv
<1>1. /\ walk = "count" /\ seen' = seen \cup Range(rows) /\ rows' = << >>
      /\ UNCHANGED <<view, others, filtered, perPage, present>>
  BY DEF CountEntries
<1>2. /\ rows \in Seq(Entries) /\ DOMAIN rows = 1 .. Len(rows) /\ Len(rows) \in Nat
      /\ \A i \in 1 .. Len(rows) : rows[i] \in Entries
  BY LenProperties, ElementOfSeq DEF AuditTypeOK
<1>3. Range(rows) \subseteq Entries
  BY <1>2 DEF Range
<1>4. page \in Nat \ {0} /\ perPage \in Nat \ {0} /\ Offset \in Nat
  <2>1. page - 1 \in Nat /\ page \in Nat \ {0} /\ perPage \in Nat \ {0}
    BY DEF AuditTypeOK
  <2> QED BY <2>1 DEF Offset
<1>5. rows' \in Seq(Entries) /\ Len(rows') = 0
  BY <1>1, EmptySeq
<1>6. walk' \in {"list", "done"} /\ page' \in Nat \ {0}
  BY <1>4 DEF CountEntries
<1>7. AuditTypeOK'
  <2>1. Len(rows') <= perPage'
    BY <1>1, <1>4, <1>5
  <2> QED BY <1>1, <1>3, <1>5, <1>6, <2>1 DEF AuditTypeOK
<1>8. present \subseteq seen' \cup Beyond(Offset + perPage)
  BY <1>1 DEF WalkFits
<1>9. CASE HasMore
  <2>1. walk' = "list" /\ page' = page + 1
    BY <1>9 DEF CountEntries
  <2>2. Offset' = Offset + perPage
    BY <1>1, <1>4, <2>1 DEF Offset
  <2>3. Beyond(Offset)' = Beyond(Offset + perPage)
    BY <1>1, <2>2 DEF Beyond
  <2>4. WalkFits'
    BY <1>1, <1>8, <2>1, <2>3 DEF WalkFits, NothingSkipped
  <2> QED BY <1>1, <1>7, <2>4
<1>10. CASE ~HasMore
  <2>1. walk' = "done"
    BY <1>10 DEF CountEntries
  <2>2. Len(view) \in Nat /\ others \in Nat /\ Len(rows) <= perPage /\ DOMAIN view = 1 .. Len(view)
    BY LenProperties DEF AuditTypeOK
  <2>3. Len(view) <= Offset + perPage
    BY <1>2, <1>4, <1>10, <2>2 DEF HasMore
  <2>4. Beyond(Offset + perPage) = {}
    BY <1>4, <2>2, <2>3 DEF Beyond
  <2>5. WalkFits'
    BY <1>1, <1>8, <2>1, <2>4 DEF WalkFits, NothingSkipped
  <2> QED BY <1>1, <1>7, <2>5
<1> QED BY <1>9, <1>10

\* Every step keeps it.
LEMMA AuditStep == AuditInv /\ [AuditNext]_auditVars => AuditInv'
<1> SUFFICES ASSUME AuditInv, [AuditNext]_auditVars PROVE AuditInv'
  OBVIOUS
<1>1. CASE LogEntry
  BY <1>1, LogEntryKeeps
<1>2. CASE AskFirst
  <2> USE DEF AuditInv
  <2>1. PICK p \in {0, 1}, n \in 0 .. MaxPerPage + 1 : page' = PageOf(p) /\ perPage' = PerPageOf(n)
    BY <1>2 DEF AskFirst
  <2>2. page' = 1 /\ perPage' \in 1 .. MaxPerPage
    BY <2>1 DEF PageOf, PerPageOf
  <2>3. /\ walk = "idle" /\ walk' = "list" /\ present' = Range(view)
        /\ UNCHANGED <<view, others, filtered, rows, seen>>
    BY <1>2 DEF AskFirst
  <2>4. /\ DOMAIN view = 1 .. Len(view) /\ Len(view) \in Nat
        /\ \A i \in 1 .. Len(view) : view[i] \in Entries
    BY LenProperties, ElementOfSeq DEF AuditTypeOK
  <2>5. Offset' = 0 /\ Beyond(Offset)' = Range(view)
    <3>1. \A k \in Int : (1 - 1) * k = 0
      OBVIOUS
    <3>2. perPage' \in Int
      BY <2>2
    <3>3. Offset' = 0
      BY <2>2, <3>1, <3>2, Zenon DEF Offset
    <3> QED BY <2>3, <2>4, <3>3 DEF Beyond, Range
  <2>6. present' \subseteq Entries
    BY <2>3, <2>4 DEF Range
  <2>7. WalkFits'
    BY <2>3, <2>5 DEF WalkFits, NothingSkipped
  <2>8. AuditTypeOK'
    <3>1. rows' = << >> /\ rows' \in Seq(Entries) /\ Len(rows') = 0
      BY <2>3, EmptySeq DEF WalkFits
    <3>2. Len(rows') <= perPage' /\ page' \in Nat \ {0}
      BY <2>2, <3>1
    <3> QED BY <2>2, <2>3, <2>6, <3>1, <3>2 DEF AuditTypeOK
  <2> QED BY <2>3, <2>7, <2>8
<1>3. CASE ListEntries
  BY <1>3, ListKeeps
<1>4. CASE CountEntries
  BY <1>4, CountKeeps
<1>5. CASE QueryFails
  <2> USE DEF AuditInv
  <2>1. /\ walk = "count" /\ walk' = "list" /\ rows' = << >>
        /\ UNCHANGED <<view, others, filtered, page, perPage, seen, present>>
    BY <1>5 DEF QueryFails
  <2>2. rows' \in Seq(Entries) /\ Len(rows') = 0 /\ Len(rows') <= perPage'
    BY <2>1, EmptySeq DEF AuditTypeOK
  <2>3. Beyond(Offset)' = Beyond(Offset)
    BY <2>1 DEF Beyond, Offset
  <2>4. WalkFits'
    BY <2>1, <2>3 DEF WalkFits, NothingSkipped
  <2>5. AuditTypeOK'
    BY <2>1, <2>2 DEF AuditTypeOK
  <2> QED BY <2>1, <2>4, <2>5
<1>6. CASE UNCHANGED auditVars
  BY <1>6 DEF auditVars, AuditInv, AuditTypeOK, WalkFits, NothingSkipped, Beyond, Offset
<1> QED BY <1>1, <1>2, <1>3, <1>4, <1>5, <1>6 DEF AuditNext

\* The rows, the pages and what the client has keep their types.
THEOREM AuditTypeCorrect == AuditSpec => []AuditTypeOK
<1>1. AuditInv => AuditTypeOK
  BY DEF AuditInv
<1> QED BY <1>1, AuditStarts, AuditStep, PTL DEF AuditSpec

\* Whatever is logged between its statements and its pages, a walk to the end has been given all that
\* existed when it began.
THEOREM PagingSkipsNothing == AuditSpec => []NothingSkipped
<1>1. AuditInv => NothingSkipped
  BY DEF AuditInv, WalkFits
<1> QED BY <1>1, AuditStarts, AuditStep, PTL DEF AuditSpec

HIDE AuditAssumption

----------------------------------------------------------------------------
(* The live log *)

USE TailAssumption

Increasing(q) == \A i, j \in DOMAIN q : i < j => q[i] < q[j]

EntriesTo(m) == {n \in 1 .. m : lines[n] = "entry"}

\* What lies between the reader's scanner and the browser.
Queued == Range(tailCh) \cup {n \in {scanned} : reader = "send"}
Underway == Queued \cup {n \in {held} : handler = "write"}

TailControl ==
  /\ handler = "start" =>
       /\ journalctl = "none" /\ reader = "none"
       /\ lines = << >> /\ scanned = 0 /\ tailCh = << >> /\ held = 0 /\ delivered = << >>
  /\ reader = "demo" => journalctl = "none"
  /\ handler = "returned" /\ journalctl # "none" => client = "reset"
  /\ Underway \subseteq 1 .. scanned

\* The pipeline is in order, and as long as somebody may read it nothing has fallen out of it.
PipeInOrder ==
  /\ Increasing(tailCh)
  /\ reader = "send" => \A x \in Range(tailCh) : x < scanned
  /\ handler = "write" => \A x \in Queued : held < x

NothingLost == client \in {"reading", "stalled"} =>
  /\ EntriesTo(scanned) = Range(delivered) \cup Underway
  /\ \A d \in Range(delivered), x \in Underway : d < x

TailInv ==
  /\ TailTypeOK /\ TailControl /\ TailInOrder
  /\ journalctl # "none" => PipeInOrder /\ NothingLost

\* One more at the end of a sequence that increases.
LEMMA AppendIncreases ==
  ASSUME NEW S \in SUBSET Nat, NEW q \in Seq(S), NEW x \in S
  PROVE  /\ Append(q, x) \in Seq(S) /\ Len(Append(q, x)) = Len(q) + 1
         /\ Range(Append(q, x)) = Range(q) \cup {x}
         /\ Increasing(q) /\ (\A y \in Range(q) : y < x) => Increasing(Append(q, x))
<1> DEFINE r == Append(q, x)
           n == Len(q)
<1>1. /\ r \in Seq(S) /\ Len(r) = n + 1 /\ r[n + 1] = x
      /\ \A i \in 1 .. n : r[i] = q[i]
  BY AppendProperties
<1>2. n \in Nat /\ DOMAIN q = 1 .. n /\ DOMAIN r = 1 .. n + 1
  BY <1>1, LenProperties
<1> HIDE DEF r, n
<1>3. Range(r) = Range(q) \cup {x}
  <2>1. ASSUME NEW i \in 1 .. n + 1 PROVE r[i] \in Range(q) \cup {x}
    <3>1. i = n + 1 \/ i \in 1 .. n
      BY <1>2
    <3> QED BY <1>1, <1>2, <3>1 DEF Range
  <2>2. ASSUME NEW i \in 1 .. n PROVE q[i] \in Range(r)
    <3>1. i \in 1 .. n + 1
      BY <1>2
    <3> QED BY <1>1, <1>2, <3>1 DEF Range
  <2>3. x \in Range(r)
    <3>1. n + 1 \in 1 .. n + 1
      BY <1>2
    <3> QED BY <1>1, <1>2, <3>1 DEF Range
  <2> QED BY <1>2, <2>1, <2>2, <2>3 DEF Range
<1>4. ASSUME Increasing(q), \A y \in Range(q) : y < x PROVE Increasing(r)
  <2> SUFFICES ASSUME NEW i \in 1 .. n + 1, NEW j \in 1 .. n + 1, i < j PROVE r[i] < r[j]
    BY <1>2 DEF Increasing
  <2>1. i \in 1 .. n
    BY <1>2
  <2>2. CASE j = n + 1
    <3>1. q[i] \in Range(q)
      BY <1>2, <2>1 DEF Range
    <3> QED BY <1>1, <1>4, <2>1, <2>2, <3>1
  <2>3. CASE j # n + 1
    <3>1. j \in 1 .. n
      BY <1>2, <2>3
    <3> QED BY <1>1, <1>2, <1>4, <2>1, <3>1 DEF Increasing
  <2> QED BY <2>2, <2>3
<1> QED BY <1>1, <1>3, <1>4 DEF r, n

\* The first leaves a sequence that increases.
LEMMA TailIncreases ==
  ASSUME NEW S \in SUBSET Nat, NEW q \in Seq(S), q # << >>
  PROVE  /\ Head(q) \in S /\ Tail(q) \in Seq(S) /\ Len(Tail(q)) <= Len(q)
         /\ Range(q) = Range(Tail(q)) \cup {Head(q)}
         /\ Increasing(q) => Increasing(Tail(q)) /\ \A y \in Range(Tail(q)) : Head(q) < y
<1> DEFINE r == Tail(q)
           n == Len(q)
           h == Head(q)
<1>1. /\ h \in S /\ r \in Seq(S) /\ Len(r) = n - 1
      /\ \A i \in 1 .. Len(r) : r[i] = q[i + 1]
  BY HeadTailProperties
<1>2. n \in Nat \ {0} /\ DOMAIN q = 1 .. n /\ DOMAIN r = 1 .. n - 1
  BY <1>1, EmptySeq, LenProperties
<1>3. h = q[1]
  BY <1>2
<1>4. \A i \in 1 .. n - 1 : r[i] = q[i + 1]
  BY <1>1
<1> HIDE DEF r, n, h
<1>5. Range(q) = Range(r) \cup {h}
  <2>1. ASSUME NEW i \in 1 .. n PROVE q[i] \in Range(r) \cup {h}
    <3>1. CASE i = 1
      BY <1>3, <3>1
    <3>2. CASE i # 1
      <4>1. i - 1 \in 1 .. n - 1 /\ i - 1 + 1 = i
        BY <1>2, <3>2
      <4> QED BY <1>2, <1>4, <4>1 DEF Range
    <3> QED BY <3>1, <3>2
  <2>2. ASSUME NEW i \in 1 .. n - 1 PROVE r[i] \in Range(q)
    <3>1. i + 1 \in 1 .. n
      BY <1>2
    <3> QED BY <1>2, <1>4, <3>1 DEF Range
  <2>3. h \in Range(q)
    <3>1. 1 \in 1 .. n
      BY <1>2
    <3> QED BY <1>2, <1>3, <3>1 DEF Range
  <2> QED BY <1>2, <2>1, <2>2, <2>3 DEF Range
<1>6. ASSUME Increasing(q) PROVE Increasing(r) /\ \A y \in Range(r) : h < y
  <2>1. ASSUME NEW i \in 1 .. n - 1, NEW j \in 1 .. n - 1, i < j PROVE r[i] < r[j]
    <3>1. i + 1 \in 1 .. n /\ j + 1 \in 1 .. n /\ i + 1 < j + 1
      BY <1>2, <2>1
    <3>2. q[i + 1] < q[j + 1]
      BY <1>2, <1>6, <3>1 DEF Increasing
    <3> QED BY <1>4, <3>2
  <2>2. ASSUME NEW i \in 1 .. n - 1 PROVE h < r[i]
    <3>1. 1 \in 1 .. n /\ i + 1 \in 1 .. n /\ 1 < i + 1
      BY <1>2
    <3>2. q[1] < q[i + 1]
      BY <1>2, <1>6, <3>1 DEF Increasing
    <3> QED BY <1>3, <1>4, <3>2
  <2> QED BY <1>2, <2>1, <2>2 DEF Increasing, Range
<1>7. Len(r) <= n
  BY <1>1, <1>2 DEF r, n
<1> QED BY <1>1, <1>5, <1>6, <1>7 DEF r, n, h

\* What the types say of the numbers.
LEMMA TailFacts ==
  ASSUME TailTypeOK
  PROVE  /\ Len(lines) \in Nat /\ DOMAIN lines = 1 .. Len(lines)
         /\ \A n \in 1 .. Len(lines) : lines[n] \in Kinds
         /\ scanned \in Nat /\ scanned <= Len(lines)
         /\ Range(delivered) \subseteq 1 .. Len(lines)
         /\ 1 .. Len(lines) \subseteq Nat
<1>1. Len(lines) \in Nat /\ DOMAIN lines = 1 .. Len(lines) /\ lines \in Seq(Kinds)
  BY LenProperties DEF TailTypeOK
<1>2. \A n \in 1 .. Len(lines) : lines[n] \in Kinds
  BY <1>1, ElementOfSeq
<1>3. delivered \in Seq(1 .. Len(lines)) /\ DOMAIN delivered = 1 .. Len(delivered)
  BY LenProperties DEF TailTypeOK
<1>4. Range(delivered) \subseteq 1 .. Len(lines)
  BY <1>3, ElementOfSeq DEF Range
<1>5. scanned \in Nat /\ scanned <= Len(lines)
  BY <1>1 DEF TailTypeOK
<1> QED BY <1>1, <1>2, <1>4, <1>5

\* A line more changes nothing of those before it.
LEMMA LinesGrow ==
  ASSUME TailTypeOK, NEW k \in Kinds, lines' = Append(lines, k), Len(lines) < MaxLines
  PROVE  /\ lines' \in Seq(Kinds) /\ Len(lines') = Len(lines) + 1 /\ Len(lines') <= MaxLines
         /\ 1 .. Len(lines) \subseteq 1 .. Len(lines')
         /\ tailCh \in Seq(1 .. Len(lines')) /\ delivered \in Seq(1 .. Len(lines'))
         /\ \A m \in 0 .. Len(lines) : EntriesTo(m)' = EntriesTo(m)
<1>1. Len(lines) \in Nat
  BY TailFacts
<1>2. /\ lines' \in Seq(Kinds) /\ Len(lines') = Len(lines) + 1
      /\ \A n \in 1 .. Len(lines) : lines'[n] = lines[n]
  BY AppendProperties DEF TailTypeOK
<1>3. Len(lines') <= MaxLines /\ 1 .. Len(lines) \subseteq 1 .. Len(lines')
  BY <1>1, <1>2
<1>4. tailCh \in Seq(1 .. Len(lines')) /\ delivered \in Seq(1 .. Len(lines'))
  BY <1>3, SeqMonotonic DEF TailTypeOK
<1>5. ASSUME NEW m \in 0 .. Len(lines) PROVE EntriesTo(m)' = EntriesTo(m)
  <2>1. 1 .. m \subseteq 1 .. Len(lines)
    BY <1>1
  <2> QED BY <1>2, <2>1 DEF EntriesTo
<1> QED BY <1>2, <1>3, <1>4, <1>5

\* TailInOrder in terms of the sets above.
LEMMA InOrder ==
  TailInOrder <=>
    (journalctl # "none" =>
       /\ Increasing(delivered)
       /\ \A d \in Range(delivered) : EntriesTo(d) = {n \in Range(delivered) : n <= d})
BY DEF TailInOrder, Increasing, EntriesTo

\* Nothing is under way at the start.
LEMMA TailStarts == TailInit => TailInv
<1> SUFFICES ASSUME TailInit PROVE TailInv
  OBVIOUS
<1> USE DEF TailInit
<1>1. /\ lines \in Seq(Kinds) /\ Len(lines) = 0 /\ tailCh \in Seq(1 .. Len(lines)) /\ Len(tailCh) = 0
      /\ delivered \in Seq(1 .. Len(lines))
  BY EmptySeq
<1>2. scanned \in 0 .. Len(lines) /\ held \in 0 .. Len(lines)
  BY <1>1
<1>3. TailTypeOK
  BY <1>1, <1>2 DEF TailTypeOK
<1>4. DOMAIN tailCh = {}
  BY <1>1, LenProperties
<1>5. Underway = {}
  BY <1>4 DEF Underway, Queued, Range
<1> QED BY <1>3, <1>5 DEF TailInv, TailControl, TailInOrder

\* The lines that journalctl writes are not yet in the pipeline.
LEMMA JournalWritesKeeps == ASSUME TailInv, JournalWrites PROVE TailInv'
<1> USE DEF TailInv
<1>1. /\ journalctl = "running" /\ Len(lines) < MaxLines
      /\ UNCHANGED <<scanned, reader, tailCh, journalctl, handler, held, client, delivered>>
  BY DEF JournalWrites
<1>2. PICK k \in Kinds : lines' = Append(lines, k)
  BY DEF JournalWrites
<1>3. /\ lines' \in Seq(Kinds) /\ Len(lines') = Len(lines) + 1 /\ Len(lines') <= MaxLines
      /\ 1 .. Len(lines) \subseteq 1 .. Len(lines')
      /\ tailCh \in Seq(1 .. Len(lines')) /\ delivered \in Seq(1 .. Len(lines'))
      /\ \A m \in 0 .. Len(lines) : EntriesTo(m)' = EntriesTo(m)
  BY <1>1, <1>2, LinesGrow
<1>4. Len(lines) \in Nat /\ scanned \in 0 .. Len(lines) /\ held \in 0 .. Len(lines)
  BY TailFacts DEF TailTypeOK
<1>5. TailTypeOK'
  <2>1. scanned \in 0 .. Len(lines') /\ held \in 0 .. Len(lines')
    BY <1>3, <1>4
  <2> QED BY <1>1, <1>3, <2>1 DEF TailTypeOK
<1>6. Underway' = Underway /\ Queued' = Queued
  BY <1>1 DEF Underway, Queued
<1>7. TailControl' /\ PipeInOrder'
  BY <1>1, <1>6 DEF TailControl, PipeInOrder
<1>8. NothingLost'
  BY <1>1, <1>3, <1>4, <1>6 DEF NothingLost
<1>9. TailInOrder'
  <2>1. \A d \in Range(delivered) : EntriesTo(d)' = EntriesTo(d)
    <3>1. \A d \in Range(delivered) : d \in 0 .. Len(lines)
      BY <1>4, TailFacts
    <3> QED BY <1>3, <3>1
  <2> QED BY <1>1, <2>1, InOrder DEF TailInOrder, EntriesTo
<1> QED BY <1>5, <1>7, <1>8, <1>9

\* The scanner takes the next line, or ends.
LEMMA ScanKeeps == ASSUME TailInv, Scan PROVE TailInv'
<1> USE DEF TailInv
<1>1. /\ reader = "scan" /\ UNCHANGED <<lines, tailCh, journalctl, handler, held, client, delivered>>
  BY DEF Scan
<1>2. Len(lines) \in Nat /\ scanned \in Nat /\ scanned <= Len(lines)
  BY TailFacts
<1>3. /\ Queued = Range(tailCh) /\ Underway \subseteq 1 .. scanned /\ handler # "start"
      /\ Range(tailCh) \subseteq Underway
  BY <1>1 DEF Queued, Underway, TailControl
<1>4. TailInOrder'
  BY <1>1 DEF TailInOrder
<1>5. CASE /\ scanned < Len(lines) /\ scanned' = scanned + 1
           /\ lines[scanned + 1] = "entry" /\ reader' = "send"
  <2>1. Queued' = Queued \cup {scanned + 1} /\ Underway' = Underway \cup {scanned + 1}
    BY <1>1, <1>3, <1>5 DEF Queued, Underway
  <2>2. scanned + 1 \in 1 .. scanned + 1 /\ 1 .. scanned \subseteq 1 .. scanned + 1
        /\ \A x \in 1 .. scanned : x < scanned + 1
    BY <1>2
  <2>3. TailTypeOK'
    BY <1>1, <1>2, <1>5 DEF TailTypeOK
  <2>4. TailControl'
    BY <1>1, <1>3, <1>5, <2>1, <2>2 DEF TailControl
  <2>5. EntriesTo(scanned)' = EntriesTo(scanned) \cup {scanned + 1}
    BY <1>1, <1>2, <1>5 DEF EntriesTo
  <2>6. ASSUME journalctl # "none" PROVE PipeInOrder'
    <3>1. handler = "write" => held < scanned + 1
      BY <1>3, <2>2 DEF Underway
    <3>2. \A x \in Range(tailCh) : x < scanned + 1
      BY <1>3, <2>2
    <3> QED BY <1>1, <1>5, <2>1, <2>6, <3>1, <3>2 DEF PipeInOrder
  <2>7. ASSUME journalctl # "none" PROVE NothingLost'
    <3>1. client \in {"reading", "stalled"} => \A d \in Range(delivered) : d < scanned + 1
      BY <2>2, <2>7 DEF NothingLost, EntriesTo
    <3> QED BY <1>1, <2>1, <2>5, <2>7, <3>1 DEF NothingLost
  <2> QED BY <1>1, <1>4, <2>3, <2>4, <2>6, <2>7
<1>6. CASE /\ scanned < Len(lines) /\ scanned' = scanned + 1
           /\ lines[scanned + 1] # "entry" /\ reader' \in {"scan", "ended"}
  <2>1. Queued' = Queued /\ Underway' = Underway
    BY <1>1, <1>3, <1>6 DEF Queued, Underway
  <2>2. 1 .. scanned \subseteq 1 .. scanned + 1
    BY <1>2
  <2>3. TailTypeOK'
    BY <1>1, <1>2, <1>6 DEF TailTypeOK
  <2>4. TailControl'
    BY <1>1, <1>3, <1>6, <2>1, <2>2 DEF TailControl
  <2>5. EntriesTo(scanned)' = EntriesTo(scanned)
    BY <1>1, <1>2, <1>6 DEF EntriesTo
  <2>6. ASSUME journalctl # "none" PROVE PipeInOrder' /\ NothingLost'
    BY <1>1, <1>6, <2>1, <2>5, <2>6 DEF PipeInOrder, NothingLost
  <2> QED BY <1>1, <1>4, <2>3, <2>4, <2>6
<1>7. CASE UNCHANGED scanned /\ reader' = "ended"
  <2>1. Queued' = Queued /\ Underway' = Underway
    BY <1>1, <1>3, <1>7 DEF Queued, Underway
  <2>2. TailTypeOK' /\ TailControl'
    BY <1>1, <1>3, <1>7, <2>1 DEF TailTypeOK, TailControl
  <2>3. ASSUME journalctl # "none" PROVE PipeInOrder' /\ NothingLost'
    BY <1>1, <1>7, <2>1, <2>3 DEF PipeInOrder, NothingLost, EntriesTo
  <2> QED BY <1>1, <1>4, <2>2, <2>3
<1>8. scanned < Len(lines) => lines[scanned + 1] \in Kinds
  BY <1>2, TailFacts
<1> QED BY <1>5, <1>6, <1>7, <1>8 DEF Scan, Kinds

\* An entry moves from the reader's hand to the end of the channel; it is given up only when the handler
\* has returned.
LEMMA ReaderSendKeeps == ASSUME TailInv, ReaderSend PROVE TailInv'
<1> USE DEF TailInv
<1>1. /\ reader = "send"
      /\ UNCHANGED <<lines, scanned, journalctl, handler, held, client, delivered>>
  BY DEF ReaderSend
<1>2. Queued = Range(tailCh) \cup {scanned} /\ Underway \subseteq 1 .. scanned
  BY <1>1 DEF Queued, TailControl
<1>3. scanned \in 1 .. Len(lines) /\ 1 .. Len(lines) \subseteq Nat /\ handler # "start"
  <2>1. scanned \in 1 .. scanned
    BY <1>2 DEF Underway
  <2> QED BY <1>1, <2>1, TailFacts DEF TailControl
<1>4. TailInOrder' /\ EntriesTo(scanned)' = EntriesTo(scanned)
  BY <1>1 DEF TailInOrder, EntriesTo
<1>5. CASE Len(tailCh) < TailCap /\ tailCh' = Append(tailCh, scanned) /\ reader' = "scan"
  <2>1. /\ tailCh' \in Seq(1 .. Len(lines)) /\ Len(tailCh') = Len(tailCh) + 1
        /\ Range(tailCh') = Range(tailCh) \cup {scanned}
        /\ Increasing(tailCh) /\ (\A y \in Range(tailCh) : y < scanned) => Increasing(tailCh')
    <3>1. 1 .. Len(lines) \in SUBSET Nat /\ tailCh \in Seq(1 .. Len(lines))
      BY <1>3 DEF TailTypeOK
    <3> QED BY <1>3, <1>5, <3>1, AppendIncreases
  <2>2. Queued' = Queued /\ Underway' = Underway
    BY <1>1, <1>2, <1>5, <2>1 DEF Queued, Underway
  <2>3. Len(tailCh') <= TailCap
    <3>1. Len(tailCh) \in Nat
      BY LenProperties DEF TailTypeOK
    <3> QED BY <1>5, <2>1, <3>1
  <2>4. TailTypeOK'
    BY <1>1, <1>5, <2>1, <2>3 DEF TailTypeOK
  <2>5. TailControl'
    BY <1>1, <1>3, <1>5, <2>2 DEF TailControl
  <2>6. ASSUME journalctl # "none" PROVE PipeInOrder' /\ NothingLost'
    <3>1. PipeInOrder'
      BY <1>1, <1>5, <2>1, <2>2, <2>6 DEF PipeInOrder
    <3>2. NothingLost'
      BY <1>1, <1>4, <2>2, <2>6 DEF NothingLost
    <3> QED BY <3>1, <3>2
  <2> QED BY <1>1, <1>4, <2>4, <2>5, <2>6
<1>6. CASE handler = "returned" /\ reader' = "ended" /\ UNCHANGED tailCh
  <2>1. Queued' \subseteq Queued /\ Underway' \subseteq Underway
    BY <1>1, <1>6 DEF Queued, Underway
  <2>2. TailTypeOK'
    BY <1>1, <1>6 DEF TailTypeOK
  <2>3. TailControl'
    BY <1>1, <1>3, <1>6, <2>1 DEF TailControl
  <2>4. ASSUME journalctl # "none" PROVE PipeInOrder' /\ NothingLost'
    <3>1. client = "reset"
      BY <1>6, <2>4 DEF TailControl
    <3> QED BY <1>1, <1>6, <2>4, <3>1 DEF PipeInOrder, NothingLost
  <2> QED BY <1>1, <1>4, <2>2, <2>3, <2>4
<1> QED BY <1>5, <1>6 DEF ReaderSend, ctxDone

\* Without journalctl there is no promise to keep.
LEMMA DemoTickKeeps == ASSUME TailInv, DemoTick PROVE TailInv'
<1> USE DEF TailInv
<1>1. /\ reader = "demo" /\ lines' = Append(lines, "entry") /\ Len(lines) < MaxLines
      /\ scanned' = scanned + 1
      /\ tailCh' = IF Len(tailCh) < TailCap THEN Append(tailCh, scanned + 1) ELSE tailCh
      /\ UNCHANGED <<reader, journalctl, handler, held, client, delivered>>
  BY DEF DemoTick
<1>2. journalctl = "none" /\ handler # "start" /\ Underway \subseteq 1 .. scanned
  BY <1>1 DEF TailControl
<1>3. /\ lines' \in Seq(Kinds) /\ Len(lines') = Len(lines) + 1 /\ Len(lines') <= MaxLines
      /\ tailCh \in Seq(1 .. Len(lines')) /\ delivered \in Seq(1 .. Len(lines'))
  BY <1>1, LinesGrow DEF Kinds
<1>4. Len(lines) \in Nat /\ scanned \in Nat /\ scanned <= Len(lines) /\ held \in 0 .. Len(lines)
  BY TailFacts DEF TailTypeOK
<1>5. scanned + 1 \in 1 .. Len(lines') /\ 1 .. Len(lines') \in SUBSET Nat
  BY <1>3, <1>4
<1>6. /\ tailCh' \in Seq(1 .. Len(lines')) /\ Len(tailCh') <= TailCap
      /\ Range(tailCh') \subseteq Range(tailCh) \cup {scanned + 1}
  <2>1. CASE Len(tailCh) < TailCap
    <3>1. /\ tailCh' \in Seq(1 .. Len(lines')) /\ Len(tailCh') = Len(tailCh) + 1
          /\ Range(tailCh') = Range(tailCh) \cup {scanned + 1}
      BY <1>1, <1>3, <1>5, <2>1, AppendIncreases
    <3>2. Len(tailCh) \in Nat
      BY LenProperties DEF TailTypeOK
    <3> QED BY <2>1, <3>1, <3>2
  <2>2. CASE ~(Len(tailCh) < TailCap)
    <3>1. tailCh' = tailCh
      BY <1>1, <2>2
    <3> QED BY <1>3, <3>1 DEF TailTypeOK
  <2> QED BY <2>1, <2>2
<1>7. TailTypeOK'
  <2>1. scanned' \in 0 .. Len(lines') /\ held' \in 0 .. Len(lines')
    BY <1>1, <1>3, <1>4
  <2> QED BY <1>1, <1>3, <1>6, <2>1 DEF TailTypeOK
<1>8. TailControl'
  <2>1. Underway' \subseteq Underway \cup {scanned + 1}
    BY <1>1, <1>6 DEF Underway, Queued
  <2>2. scanned + 1 \in 1 .. scanned + 1 /\ 1 .. scanned \subseteq 1 .. scanned + 1
    BY <1>4
  <2> QED BY <1>1, <1>2, <2>1, <2>2 DEF TailControl
<1> QED BY <1>1, <1>2, <1>7, <1>8 DEF TailInOrder

\* The handler takes the first of the channel.
LEMMA ReceiveKeeps == ASSUME TailInv, Receive PROVE TailInv'
<1> USE DEF TailInv
<1>1. /\ handler = "select" /\ tailCh # << >> /\ held' = Head(tailCh) /\ tailCh' = Tail(tailCh)
      /\ handler' = "write"
      /\ UNCHANGED <<lines, scanned, reader, journalctl, client, delivered>>
  BY DEF Receive
<1>2. 1 .. Len(lines) \in SUBSET Nat /\ tailCh \in Seq(1 .. Len(lines))
  BY TailFacts DEF TailTypeOK
<1>3. /\ held' \in 1 .. Len(lines) /\ tailCh' \in Seq(1 .. Len(lines)) /\ Len(tailCh') <= Len(tailCh)
      /\ Range(tailCh) = Range(tailCh') \cup {held'}
      /\ Increasing(tailCh) => Increasing(tailCh') /\ \A y \in Range(tailCh') : held' < y
  BY <1>1, <1>2, TailIncreases
<1>4. Len(tailCh') \in Nat /\ Len(tailCh) \in Nat
  BY <1>2, <1>3, LenProperties
<1>5. TailTypeOK'
  <2>1. Len(tailCh') <= TailCap
    BY <1>3, <1>4 DEF TailTypeOK
  <2>2. held' \in 0 .. Len(lines)
    BY <1>3, TailFacts
  <2> QED BY <1>1, <1>3, <2>1, <2>2 DEF TailTypeOK
<1>6. Underway' = Underway /\ Queued = Queued' \cup {held'}
  BY <1>1, <1>3 DEF Underway, Queued
<1>7. TailControl'
  BY <1>1, <1>6 DEF TailControl
<1>8. TailInOrder' /\ EntriesTo(scanned)' = EntriesTo(scanned)
  BY <1>1 DEF TailInOrder, EntriesTo
<1>9. ASSUME journalctl # "none" PROVE PipeInOrder' /\ NothingLost'
  <2>1. \A y \in Range(tailCh') : held' < y
    BY <1>3, <1>9 DEF PipeInOrder
  <2>2. reader = "send" => held' < scanned /\ \A y \in Range(tailCh') : y < scanned
    BY <1>3, <1>9 DEF PipeInOrder
  <2>3. PipeInOrder'
    BY <1>1, <1>3, <1>9, <2>1, <2>2 DEF PipeInOrder, Queued
  <2>4. NothingLost'
    BY <1>1, <1>6, <1>8, <1>9 DEF NothingLost
  <2> QED BY <2>3, <2>4
<1> QED BY <1>1, <1>5, <1>7, <1>8, <1>9

\* What the browser gets follows what it has, and nothing is between them.
LEMMA WriteMessageKeeps == ASSUME TailInv, WriteMessage PROVE TailInv'
<1> USE DEF TailInv
<1>1. /\ handler = "write" /\ held' = 0 /\ handler' \in {"select", "returned"}
      /\ UNCHANGED <<lines, scanned, reader, tailCh, journalctl>>
  BY DEF WriteMessage
<1>2. /\ Queued' = Queued /\ Underway' = Queued /\ Underway = Queued \cup {held}
      /\ EntriesTo(scanned)' = EntriesTo(scanned)
  BY <1>1 DEF Queued, Underway, EntriesTo
<1>3. held \in 1 .. scanned /\ scanned \in Nat /\ scanned <= Len(lines) /\ Len(lines) \in Nat
  BY <1>2, TailFacts DEF TailControl
<1>4. journalctl # "none" => PipeInOrder'
  BY <1>1, <1>2 DEF PipeInOrder
<1>5. CASE client = "reading" /\ handler' = "select" /\ delivered' = Append(delivered, held) /\ UNCHANGED client
  <2>1. held \in 1 .. Len(lines) /\ 1 .. Len(lines) \in SUBSET Nat
    BY <1>3
  <2>2. /\ delivered' \in Seq(1 .. Len(lines)) /\ Range(delivered') = Range(delivered) \cup {held}
        /\ Increasing(delivered) /\ (\A y \in Range(delivered) : y < held) => Increasing(delivered')
    BY <1>5, <2>1, AppendIncreases DEF TailTypeOK
  <2>3. TailTypeOK'
    <3>1. held' \in 0 .. Len(lines)
      BY <1>1, <1>3
    <3> QED BY <1>1, <1>5, <2>2, <3>1 DEF TailTypeOK
  <2>4. TailControl'
    BY <1>1, <1>2, <1>5 DEF TailControl
  <2>5. ASSUME journalctl # "none" PROVE TailInOrder' /\ NothingLost'
    <3>1. /\ EntriesTo(scanned) = Range(delivered) \cup Queued \cup {held}
          /\ \A d \in Range(delivered), x \in Queued \cup {held} : d < x
      BY <1>2, <1>5, <2>5 DEF NothingLost
    <3>2. \A x \in Queued : held < x
      BY <1>1, <2>5 DEF PipeInOrder
    <3>3. NothingLost'
      BY <1>1, <1>2, <2>2, <3>1, <3>2 DEF NothingLost
    <3>4. Increasing(delivered')
      BY <2>2, <2>5, <3>1, InOrder
    <3>5. ASSUME NEW d \in Range(delivered')
          PROVE  EntriesTo(d) = {n \in Range(delivered') : n <= d}
      <4>1. CASE d = held
        <5>1. EntriesTo(held) = {n \in EntriesTo(scanned) : n <= held}
          BY <1>3 DEF EntriesTo
        <5>2. /\ Queued \subseteq Nat /\ Range(delivered) \subseteq Nat /\ held \in Nat
              /\ \A n \in Nat : n <= held <=> ~(held < n)
          BY <1>2, <1>3, TailFacts DEF TailControl
        <5>3. ASSUME NEW n \in Nat
              PROVE  n \in EntriesTo(scanned) /\ n <= held <=> n \in Range(delivered') /\ n <= held
          BY <2>2, <3>1, <3>2, <5>2
        <5>4. EntriesTo(scanned) \subseteq Nat /\ Range(delivered') \subseteq Nat
          BY <2>2, <5>2 DEF EntriesTo
        <5> QED BY <4>1, <5>1, <5>3, <5>4
      <4>2. CASE d # held
        <5>1. d \in Range(delivered) /\ d < held /\ d \in Nat /\ held \in Nat
          BY <1>3, <2>2, <3>1, <4>2, TailFacts
        <5>2. EntriesTo(d) = {n \in Range(delivered) : n <= d}
          BY <2>5, <5>1, InOrder
        <5>3. ~(held <= d)
          BY <5>1
        <5> QED BY <2>2, <5>2, <5>3
      <4> QED BY <4>1, <4>2
    <3>6. TailInOrder'
      BY <1>1, <3>4, <3>5 DEF TailInOrder, Increasing, EntriesTo
    <3> QED BY <3>3, <3>6
  <2>6. journalctl = "none" => TailInOrder'
    BY <1>1 DEF TailInOrder
  <2> QED BY <1>1, <1>4, <2>3, <2>4, <2>5, <2>6
<1>6. CASE /\ client \in {"gone", "reset"} /\ client' = "reset" /\ UNCHANGED delivered
  <2>1. TailTypeOK'
    <3>1. held' \in 0 .. Len(lines)
      BY <1>1, <1>3
    <3> QED BY <1>1, <1>6, <3>1 DEF TailTypeOK
  <2>2. TailControl'
    BY <1>1, <1>2, <1>6 DEF TailControl
  <2>3. TailInOrder' /\ NothingLost'
    BY <1>1, <1>6 DEF TailInOrder, NothingLost
  <2> QED BY <1>4, <1>1, <2>1, <2>2, <2>3
<1> QED BY <1>5, <1>6 DEF WriteMessage

\* Every step keeps it.
LEMMA TailStep == TailInv /\ [TailNext]_tailVars => TailInv'
<1> SUFFICES ASSUME TailInv, [TailNext]_tailVars PROVE TailInv'
  OBVIOUS
<1>1. CASE StartTail
  <2> USE DEF TailInv
  <2>1. /\ handler = "start" /\ handler' \in {"select", "returned"}
        /\ UNCHANGED <<lines, scanned, tailCh, held, client, delivered>>
        /\ \/ journalctl' = "running" /\ reader' = "scan" /\ handler' = "select"
           \/ reader' = "demo" /\ UNCHANGED journalctl
           \/ UNCHANGED <<journalctl, reader>>
    BY <1>1 DEF StartTail
  <2>2. /\ journalctl = "none" /\ reader = "none" /\ lines = << >> /\ scanned = 0 /\ tailCh = << >>
        /\ held = 0 /\ delivered = << >>
    BY <2>1 DEF TailControl
  <2>3. DOMAIN tailCh = {} /\ DOMAIN delivered = {}
    BY <2>2
  <2>4. Underway' = {} /\ Queued' = {} /\ Range(delivered) = {}
    BY <2>1, <2>2, <2>3 DEF Underway, Queued, Range
  <2>5. TailTypeOK'
    BY <2>1, <2>2 DEF TailTypeOK
  <2>6. TailControl'
    BY <2>1, <2>2, <2>4 DEF TailControl
  <2>7. PipeInOrder' /\ NothingLost'
    <3>1. EntriesTo(scanned)' = {}
      BY <2>1, <2>2 DEF EntriesTo
    <3> QED BY <2>1, <2>3, <2>4, <3>1 DEF PipeInOrder, NothingLost, Increasing
  <2>8. TailInOrder'
    BY <2>1, <2>3, <2>4 DEF TailInOrder
  <2> QED BY <2>5, <2>6, <2>7, <2>8
<1>2. CASE Scan
  BY <1>2, ScanKeeps
<1>3. CASE ReaderSend
  BY <1>3, ReaderSendKeeps
<1>4. CASE Kill \/ JournalExits
  <2> USE DEF TailInv
  <2>1. /\ journalctl # "none" /\ journalctl' \in {"exited", "killed"}
        /\ UNCHANGED <<lines, scanned, reader, tailCh, handler, held, client, delivered>>
    BY <1>4 DEF Kill, JournalExits
  <2>2. Underway' = Underway /\ Queued' = Queued /\ EntriesTo(scanned)' = EntriesTo(scanned)
    BY <2>1 DEF Underway, Queued, EntriesTo
  <2>3. TailTypeOK'
    BY <2>1 DEF TailTypeOK
  <2>4. TailControl' /\ TailInOrder'
    BY <2>1, <2>2 DEF TailControl, TailInOrder
  <2>5. PipeInOrder' /\ NothingLost'
    BY <2>1, <2>2 DEF PipeInOrder, NothingLost
  <2> QED BY <2>3, <2>4, <2>5
<1>5. CASE DemoEnds
  <2> USE DEF TailInv
  <2>1. /\ reader = "demo" /\ reader' = "ended"
        /\ UNCHANGED <<lines, scanned, tailCh, journalctl, handler, held, client, delivered>>
    BY <1>5 DEF DemoEnds
  <2>2. Underway' = Underway
    BY <2>1 DEF Underway, Queued
  <2> QED BY <2>1, <2>2 DEF TailTypeOK, TailControl, TailInOrder
<1>6. CASE Receive
  BY <1>6, ReceiveKeeps
<1>7. CASE WriteMessage
  BY <1>7, WriteMessageKeeps
<1>8. CASE JournalWrites
  BY <1>8, JournalWritesKeeps
<1>9. CASE DemoTick
  BY <1>9, DemoTickKeeps
<1>10. CASE ClientChanges
  <2> USE DEF TailInv
  <2>1. /\ client' \in {"reading", "stalled", "gone", "reset"}
        /\ client \in {"reading", "stalled"}
        /\ UNCHANGED <<lines, scanned, reader, tailCh, journalctl, handler, held, delivered>>
    BY <1>10 DEF ClientChanges
  <2>2. Underway' = Underway /\ Queued' = Queued /\ EntriesTo(scanned)' = EntriesTo(scanned)
    BY <2>1 DEF Underway, Queued, EntriesTo
  <2>3. TailTypeOK' /\ TailControl' /\ TailInOrder'
    BY <2>1, <2>2 DEF TailTypeOK, TailControl, TailInOrder
  <2>4. journalctl # "none" => PipeInOrder' /\ NothingLost'
    BY <2>1, <2>2 DEF PipeInOrder, NothingLost
  <2> QED BY <2>1, <2>3, <2>4
<1>11. CASE UNCHANGED tailVars
  BY <1>11 DEF tailVars, TailInv, TailTypeOK, TailControl, TailInOrder, PipeInOrder, NothingLost,
               Underway, Queued, EntriesTo
<1> QED BY <1>1, <1>2, <1>3, <1>4, <1>5, <1>6, <1>7, <1>8, <1>9, <1>10, <1>11 DEF TailNext

\* The lines, the channel and what the browser got keep their types.
THEOREM TailTypeCorrect == TailSpec => []TailTypeOK
<1>1. TailInv => TailTypeOK
  BY DEF TailInv
<1> QED BY <1>1, TailStarts, TailStep, PTL DEF TailSpec

\* From the scanner through the channel to the browser no entry of journalctl is lost, doubled or overtaken,
\* wherever the pipeline stalls or breaks off.
THEOREM LiveLogInOrder == TailSpec => []TailInOrder
<1>1. TailInv => TailInOrder
  BY DEF TailInv
<1> QED BY <1>1, TailStarts, TailStep, PTL DEF TailSpec

HIDE TailAssumption

----------------------------------------------------------------------------
(* The answers of the stored log *)

USE LogAssumption

\* The last m of some lines hold the last n of them, when n is no more than m.
LEMMA LastNGrows ==
  ASSUME LogTypeOK, NEW lineSet \in SUBSET Positions, NEW n \in Nat, NEW m \in Nat, n <= m
  PROVE  LastN(lineSet, n) \subseteq LastN(lineSet, m)
<1>1. Len(log) \in Nat
  BY LenProperties DEF LogTypeOK
<1>2. IsFiniteSet(Positions)
  BY <1>1, FS_Interval DEF Positions
<1>3. ASSUME NEW i \in lineSet PROVE Cardinality({j \in lineSet : j > i}) \in Nat
  <2>1. IsFiniteSet({j \in lineSet : j > i})
    BY <1>2, FS_Subset
  <2> QED BY <2>1, FS_CardinalityType
<1> QED BY <1>3 DEF LastN

\* Asking for more lines is never turned into asking for fewer.
LEMMA ClampGrows ==
  ASSUME NEW n \in 1 .. MaxQueryLines + 1, NEW m \in 0 .. MaxQueryLines + 1, n <= m
  PROVE  ClampLines(n) \in Nat /\ ClampLines(m) \in Nat /\ ClampLines(n) <= ClampLines(m)
BY DEF ClampLines

\* Of both readers the answer for fewer lines is within the answer for more.
LEMMA MoreShowMore == ASSUME LogTypeOK PROVE MoreLinesShowMore
<1> SUFFICES ASSUME NEW q \in Queries, NEW n \in 1 .. MaxQueryLines + 1, n <= q.lines
             PROVE  LET fewer == [q EXCEPT !.lines = n]
                    IN  /\ Within(readLogFile(fewer), readLogFile(q))
                        /\ ~readJournald(q).error => Within(readJournald(fewer), readJournald(q))
  BY DEF MoreLinesShowMore
<1> DEFINE fewer == [q EXCEPT !.lines = n]
<1>1. fewer.lines = n /\ fewer.severity = q.severity /\ fewer.search = q.search
  BY DEF Queries
<1>2. ClampLines(n) \in Nat /\ ClampLines(q.lines) \in Nat /\ ClampLines(n) <= ClampLines(q.lines)
  BY ClampGrows DEF Queries
<1> HIDE DEF fewer
<1>3. Within(readLogFile(fewer), readLogFile(q))
  <2>1. LastN(Scanned, ClampLines(n)) \subseteq LastN(Scanned, ClampLines(q.lines))
    BY <1>2, LastNGrows DEF Scanned
  <2> QED BY <1>1, <2>1 DEF Within, readLogFile, Kept
<1>4. ASSUME ~readJournald(q).error PROVE Within(readJournald(fewer), readJournald(q))
  <2> DEFINE severe == {i \in Positions : log[i].priority \in PriorityShows(q.severity)}
  <2>1. LastN(severe, ClampLines(n)) \subseteq LastN(severe, ClampLines(q.lines))
    BY <1>2, LastNGrows
  <2>2. Journalctl(fewer) \subseteq Journalctl(q)
    BY <1>1, <2>1 DEF Journalctl
  <2>3. ~\E i \in Journalctl(q) : log[i].kind = "long"
    BY <1>4 DEF readJournald
  <2>4. /\ readJournald(q).entries = {i \in Journalctl(q) : Matches(q, i)}
        /\ readJournald(fewer).entries = {i \in Journalctl(fewer) : Matches(fewer, i)}
    BY <2>2, <2>3 DEF readJournald
  <2> QED BY <1>1, <2>2, <2>4 DEF Within, Matches
<1> QED BY <1>3, <1>4 DEF fewer

\* Of both readers the answer to a search is within the answer without one.
LEMMA SearchNarrows == ASSUME LogTypeOK PROVE FiltersNarrow
<1> SUFFICES ASSUME NEW q \in Queries
             PROVE  LET all == [q EXCEPT !.search = FALSE]
                    IN  /\ Within(readLogFile(q), readLogFile([all EXCEPT !.severity = AnySeverity]))
                        /\ readJournald(q).error = readJournald(all).error
                        /\ Within(readJournald(q), readJournald(all))
  BY DEF FiltersNarrow
<1> DEFINE all == [q EXCEPT !.search = FALSE]
           any == [all EXCEPT !.severity = AnySeverity]
<1>1. /\ all.lines = q.lines /\ all.severity = q.severity /\ ~all.search
      /\ any.lines = q.lines /\ any.severity = AnySeverity /\ ~any.search
  BY DEF Queries
<1> HIDE DEF all, any
<1>2. Within(readLogFile(q), readLogFile(any))
  BY <1>1 DEF Within, readLogFile, Kept
<1>3. Journalctl(q) = Journalctl(all)
  BY <1>1 DEF Journalctl
<1>4. readJournald(q).error = readJournald(all).error
  BY <1>3 DEF readJournald
<1>5. Within(readJournald(q), readJournald(all))
  <2>1. \A i \in Journalctl(q) : Matches(q, i) => Matches(all, i)
    BY <1>1 DEF Matches
  <2> QED BY <1>3, <2>1 DEF Within, readJournald
<1> QED BY <1>2, <1>4, <1>5 DEF all, any

\* The log only grows, line by line.
LEMMA LogStep == LogTypeOK /\ [LogNext]_log => LogTypeOK'
<1> SUFFICES ASSUME LogTypeOK, [LogNext]_log PROVE LogTypeOK'
  OBVIOUS
<1>1. CASE LogNext
  <2>1. PICK line \in LogLines : log' = Append(log, line)
    BY <1>1 DEF LogNext
  <2>2. log' \in Seq(LogLines) /\ Len(log') = Len(log) + 1 /\ Len(log) \in Nat
    BY <2>1, AppendProperties, LenProperties DEF LogTypeOK
  <2> QED BY <1>1, <2>2 DEF LogNext, LogTypeOK
<1>2. CASE UNCHANGED log
  BY <1>2 DEF LogTypeOK
<1> QED BY <1>1, <1>2

\* The log is a sequence of lines.
THEOREM LogTypeCorrect == LogSpec => []LogTypeOK
<1>1. LogInit => LogTypeOK
  <2>1. << >> \in Seq(LogLines) /\ Len(<< >>) = 0
    BY EmptySeq
  <2> QED BY <2>1 DEF LogInit, LogTypeOK
<1> QED BY <1>1, LogStep, PTL DEF LogSpec

\* Whatever the log holds, more lines, no search and no severity never show less, through journalctl as from the
\* file.
THEOREM AnswersFit == LogSpec => []ReadSound
<1>1. LogTypeOK => ReadSound
  BY MoreShowMore, SearchNarrows DEF ReadSound
<1> QED BY <1>1, LogTypeCorrect, PTL

HIDE LogAssumption

----------------------------------------------------------------------------
(* The parts side by side *)

PartNames == {"audit", "tail", "log", "collector", "socket", "service", "update", "tls",
              "alerts", "badge", "view", "info", "process"}

\* A step of one part is a step, or nothing, to each of them.
LEMMA OnePartMoves ==
  [PanelNext]_panelVars =>
    /\ part' = part
    /\ [AuditNext]_auditVars
    /\ [TailNext]_tailVars
    /\ [LogNext]_log
    /\ [CollectorNext]_collectorVars
    /\ [SocketNext]_socketVars
    /\ [ServiceNext]_serviceVars
    /\ [UpdateNext \/ TlsNext]_systemVars
    /\ [AlertsNext]_alertVars
    /\ [BadgeNext]_badgeVars
    /\ [ViewNext]_viewVars
    /\ [InfoNext]_infoVars
    /\ [ProcessNext]_processVars
BY DEF PanelNext, panelVars

\* Every part begins as it does alone.
LEMMA AllStart ==
  PanelInit =>
    /\ part \in PartNames
    /\ AuditInit /\ TailInit /\ LogInit /\ CollectorInit /\ SocketInit /\ ServiceInit
    /\ SystemInit /\ AlertsInit /\ BadgeInit /\ ViewInit /\ InfoInit /\ ProcessInit
BY DEF PanelInit, PartNames

\* What is proved of each part alone holds of all of them side by side.
LEMMA PartsRun ==
  PanelSpec =>
    /\ [](part \in PartNames)
    /\ AuditSpec /\ TailSpec /\ LogSpec /\ CollectorSpec /\ SocketSpec /\ ServiceSpec
    /\ SystemSpec /\ AlertsSpec /\ BadgeSpec /\ ViewSpec /\ InfoSpec /\ ProcessSpec
<1>1. part \in PartNames /\ part' = part => (part \in PartNames)'
  OBVIOUS
<1> QED BY <1>1, OnePartMoves, AllStart, PTL
        DEF PanelSpec, AuditSpec, TailSpec, LogSpec, CollectorSpec, SocketSpec, ServiceSpec,
            SystemSpec, AlertsSpec, BadgeSpec, ViewSpec, InfoSpec, ProcessSpec

\* Every part keeps its type.
THEOREM PanelTypeCorrect == PanelSpec => []PanelTypeOK
<1>1. /\ part \in PartNames
      /\ AuditTypeOK /\ TailTypeOK /\ LogTypeOK /\ CollectorTypeOK /\ SocketTypeOK /\ ServiceTypeOK
      /\ SystemTypeOK /\ AlertsTypeOK /\ BadgeTypeOK /\ ViewTypeOK /\ InfoTypeOK /\ ProcessTypeOK
      => PanelTypeOK
  BY DEF PartNames, PanelTypeOK
<1> QED BY <1>1, PartsRun, AuditTypeCorrect, TailTypeCorrect, LogTypeCorrect, CollectorTypeCorrect,
           SocketTypeCorrect, ServiceTypeCorrect, SystemTypeCorrect, AlertsTypeCorrect, BadgeTypeCorrect,
           ViewTypeCorrect, InfoTypeCorrect, ProcessTypeCorrect, PTL

\* Of all logs, whatever runs beside them: paging skips nothing, the live log has no gap, related answers fit.
THEOREM LogsAreSound == PanelSpec => []LogsSound
<1>1. NothingSkipped /\ TailInOrder /\ ReadSound => LogsSound
  BY DEF LogsSound
<1> QED BY <1>1, PartsRun, PagingSkipsNothing, LiveLogInOrder, AnswersFit, PTL

\* Stops are meant, alerts are announced once, and the live log is shown once.
THEOREM PagesAreSound == PanelSpec => []PagesSound
<1>1. StopsDeliberate /\ AnnouncedOnce /\ ViewSound => PagesSound
  BY DEF PagesSound
<1> QED BY <1>1, PartsRun, StopsAreDeliberate, BellIsRight, ViewIsSound, PTL

\* The server's measurements are right, and its inventory is collected once.
THEOREM MachineIsSound == PanelSpec => []MachineSound
<1>1. ReadingsSound /\ InfoSound => MachineSound
  BY DEF MachineSound
<1> QED BY <1>1, PartsRun, ReadingsAreSound, InventoryShared, PTL

\* What is proved of sockets, settings, process and alerts holds side by side with the rest.
THEOREM PartsAreSound ==
  PanelSpec =>
    /\ [](SocketsSound /\ SystemSound /\ ProcessSound /\ AlertsFit /\ NoticesFit)
    /\ TwoInARow
BY PartsRun, SocketsAreSound, SystemIsSound, ProcessIsSound, TableFits, ReceiverFits, NoFlapping, PTL
=============================================================================
