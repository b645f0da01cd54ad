----------------------------- MODULE SystemPage -----------------------------
(***************************************************************************)
(* The system page's two services (handler/system.go).  The update         *)
(* checker (updater/updater.go) writes its status field by field while     *)
(* GetUpdateStatus copies it, and no lock orders them.  The TLS manager    *)
(* (tls/manager.go) writes certificate and key one after the other, in the *)
(* goroutine of each request; a restart loads the pair.                    *)
(***************************************************************************)
EXTENDS Integers, Sequences, SequencesExt

CONSTANTS
  ReleaseLog, \* the tags, as semantic versioning orders them: sequences of parts, a part its digits
  Current,    \* version.Version, one of them
  Writers,    \* goroutines that generate a certificate
  MaxPairs,   \* bound on the pairs generated
  MaxTrouble  \* bound on failed generations

VARIABLES
  status,     \* the checker's fields
  fetched,    \* the release a check is writing, NoTag if none
  checker,    \* the next field it writes
  copy,       \* what GetUpdateStatus has copied so far
  copying,    \* the fields it has still to copy
  torn,       \* history: a check was writing while the copy was made
  certFile, keyFile,  \* the pair a file is of, 0 when it is missing or cut off
  pairs,      \* the pairs generated so far
  writer,     \* where a request is
  mine,       \* the pair a request generates
  alone,      \* history: no other request was at work since this one began
  whole,      \* history: the last request to begin was alone and has come to its end
  trouble

updateVars == <<status, fetched, checker, copy, copying, torn>>
tlsVars == <<certFile, keyFile, pairs, writer, mine, alone, whole, trouble>>
systemVars == <<updateVars, tlsVars>>

Releases == Range(ReleaseLog)
NoTag == << >>
Tags == Releases \cup {NoTag}
Statuses == [latest : Tags, release : Tags, hasUpdate : BOOLEAN]
Fields == {"latest", "release", "hasUpdate"}

SystemTypeOK ==
  /\ status \in Statuses /\ copy \in Statuses
  /\ fetched \in Tags
  /\ checker \in Fields \cup {"idle"} /\ copying \subseteq Fields
  /\ torn \in BOOLEAN /\ whole \in BOOLEAN
  /\ alone \in [Writers -> BOOLEAN]
  /\ pairs \in 0 .. MaxPairs
  /\ certFile \in 0 .. pairs /\ keyFile \in 0 .. pairs
  /\ writer \in [Writers -> {"idle", "openCert", "writeCert", "openKey", "writeKey"}]
  /\ mine \in [Writers -> 0 .. pairs]
  /\ trouble \in 0 .. MaxTrouble

SystemInit ==
  /\ status = [latest |-> NoTag, release |-> NoTag, hasUpdate |-> FALSE]
  /\ fetched = NoTag /\ checker = "idle"
  /\ copy = status /\ copying = {} /\ torn = FALSE
  /\ certFile = 0 /\ keyFile = 0 /\ pairs = 0
  /\ writer = [w \in Writers |-> "idle"]
  /\ mine = [w \in Writers |-> 0]
  /\ alone = [w \in Writers |-> FALSE]
  /\ whole = FALSE /\ trouble = 0

----------------------------------------------------------------------------
(* Versions *)

\* The digits of a part are run together, whatever stands between them: the tags are those of releases, since
\* 1.2.0-rc1 would count as 1.2.1.
partToInt(parts, i) ==
  IF i > Len(parts) THEN 0 ELSE FoldLeft(LAMBDA n, c : n * 10 + c, 0, parts[i])

Longer(l, c) == IF Len(l) > Len(c) THEN Len(l) ELSE Len(c)

\* The first part that differs decides.  ("dev" and 0.0.0 never have an update; Current is a release.)
isNewerVersion(l, c) ==
  \E i \in 1 .. Longer(l, c) :
    /\ partToInt(l, i) > partToInt(c, i)
    /\ \A j \in 1 .. i - 1 : partToInt(l, j) = partToInt(c, j)

\* The log lists the releases from the oldest to the newest.
ASSUME SystemAssumption ==
  /\ MaxPairs \in Nat /\ MaxTrouble \in Nat
  /\ ReleaseLog \in Seq(Releases) /\ NoTag \notin Releases /\ Current \in Releases
  /\ \A tag \in Releases : /\ Len(tag) \in Nat
                          /\ \A i \in 1 .. Len(tag) : partToInt(tag, i) \in Nat
  /\ \A i, j \in DOMAIN ReleaseLog : i < j => isNewerVersion(ReleaseLog[j], ReleaseLog[i])

----------------------------------------------------------------------------
(* The update status *)

\* fetchLatestRelease succeeds; a failed one leaves the status as it is.
FetchLatestRelease ==
  /\ checker = "idle"
  /\ fetched' \in Releases
  /\ checker' = "latest"
  /\ torn' = (torn \/ copying # {})
  /\ UNCHANGED <<status, copy, copying, tlsVars>>

NextField(f) == CASE f = "latest" -> "release" [] f = "release" -> "hasUpdate" [] f = "hasUpdate" -> "idle"

\* One assignment of check, LastChecked left out.
WriteField ==
  /\ checker # "idle"
  /\ status' = CASE checker = "hasUpdate" -> [status EXCEPT !.hasUpdate = isNewerVersion(fetched, Current)]
                 [] OTHER -> [status EXCEPT ![checker] = fetched]
  /\ checker' = NextField(checker)
  /\ UNCHANGED <<fetched, copy, copying, torn, tlsVars>>

GetUpdateStatus ==
  /\ copying = {}
  /\ copying' = Fields
  /\ torn' = (checker # "idle")
  /\ UNCHANGED <<status, fetched, checker, copy, tlsVars>>

\* The compiler chooses the order.  A copy across a check may hold anything; it is marked torn.
CopyField ==
  /\ \E f \in copying :
       /\ copy' = [copy EXCEPT ![f] = status[f]]
       /\ copying' = copying \ {f}
  /\ UNCHANGED <<status, fetched, checker, torn, tlsVars>>

----------------------------------------------------------------------------
(* The certificate *)

Busy(w) == writer[w] # "idle"

\* GenerateSelfSigned up to the first file: key and certificate are made in memory.
Generate(w) ==
  /\ ~Busy(w)
  /\ pairs < MaxPairs
  /\ pairs' = pairs + 1
  /\ mine' = [mine EXCEPT ![w] = pairs + 1]
  /\ writer' = [writer EXCEPT ![w] = "openCert"]
  /\ alone' = [v \in Writers |-> v = w /\ ~\E u \in Writers : Busy(u)]
  /\ whole' = FALSE
  /\ UNCHANGED <<certFile, keyFile, trouble, updateVars>>

\* O_TRUNC empties the file.  Of two requests that write across each other the last to write is taken to have
\* written all; no property relies on it.
OpenCert(w) ==
  /\ writer[w] = "openCert"
  /\ writer' = [writer EXCEPT ![w] = "writeCert"]
  /\ certFile' = 0
  /\ UNCHANGED <<keyFile, whole>>

WriteCert(w) ==
  /\ writer[w] = "writeCert"
  /\ writer' = [writer EXCEPT ![w] = "openKey"]
  /\ certFile' = mine[w]
  /\ UNCHANGED <<keyFile, whole>>

OpenKey_KeepOld(w) ==
  /\ writer[w] = "openKey"
  /\ writer' = [writer EXCEPT ![w] = IF keyFile = 0 THEN "writeKey" ELSE "idle"]
  /\ whole' = (keyFile # 0 /\ alone[w])
  /\ UNCHANGED <<certFile, keyFile>>
OpenKey(w) ==
  /\ writer[w] = "openKey"
  /\ writer' = [writer EXCEPT ![w] = "writeKey"]
  /\ keyFile' = 0
  /\ UNCHANGED <<certFile, whole>>

WriteKey(w) ==
  /\ writer[w] = "writeKey"
  /\ writer' = [writer EXCEPT ![w] = "idle"]
  /\ keyFile' = mine[w]
  /\ whole' = alone[w]
  /\ UNCHANGED certFile

WriteFiles(w) ==
  /\ OpenCert(w) \/ WriteCert(w) \/ OpenKey(w) \/ WriteKey(w)
  /\ UNCHANGED <<pairs, mine, alone, trouble, updateVars>>

\* A file cannot be opened or written, or the process dies: the files stay as they are.
GenerateFails(w) ==
  /\ Busy(w)
  /\ trouble < MaxTrouble
  /\ trouble' = trouble + 1
  /\ writer' = [writer EXCEPT ![w] = "idle"]
  /\ UNCHANGED <<certFile, keyFile, pairs, mine, alone, whole, updateVars>>

UpdateNext == FetchLatestRelease \/ WriteField \/ GetUpdateStatus \/ CopyField

TlsNext == \E w \in Writers : Generate(w) \/ WriteFiles(w) \/ GenerateFails(w)

----------------------------------------------------------------------------
(* Properties *)

Place(tag) == CHOOSE i \in 1 .. Len(ReleaseLog) : ReleaseLog[i] = tag

\* A status that was not copied across a check speaks of one release, and offers it exactly if it comes after the
\* installed version in the order of semantic versioning.
UpdateTrue ==
  copying = {} /\ ~torn /\ copy.latest # NoTag =>
    /\ copy.release = copy.latest
    /\ copy.hasUpdate <=> Place(copy.latest) > Place(Current)

\* Whatever was cut short or written across each other before: after a generation that ran alone to its end the
\* certificate and the key that a restart loads belong together.
PairMatches == whole => certFile # 0 /\ certFile = keyFile

\* What the system page reports and leaves behind can be relied on, apart from overlaps.
SystemSound == UpdateTrue /\ PairMatches
=============================================================================
