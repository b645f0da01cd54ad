---------------------------- MODULE ServerProofs ----------------------------
(***************************************************************************)
(* Proofs about what the server does on its own account: the process and   *)
(* its database connection, the alert engine and its webhook, the system's *)
(* inventory, the metrics collector, the update checker and the TLS        *)
(* manager.  For any number of requests, migrations, starts, crashes,      *)
(* keys, thresholds, alerts, failures and certificates.                    *)
(***************************************************************************)
EXTENDS Lifecycle, Alerts, SystemInfo, Collector, SystemPage, FiniteSetTheorems, TLAPS

InfoSpec == InfoInit /\ [][InfoNext]_infoVars
CollectorSpec == CollectorInit /\ [][CollectorNext]_collectorVars
SystemSpec == SystemInit /\ [][UpdateNext \/ TlsNext]_systemVars

----------------------------------------------------------------------------
(* The process *)

USE LifecycleAssumption

\* Where main stands decides what else there can be.
Staged ==
  /\ quit => main \in {"select", "shutdown"}
  /\ server # "none" => main \in {"select", "shutdown"}
  /\ \A s \in Slots : slot[s] # "none" => main \in {"select", "shutdown"}
  /\ main \in {"select", "shutdown"} => schema = LastMigration

\* A shutdown was asked for.
Asked == quit \/ main = "shutdown" => signalled

ProcessInv == ProcessTypeOK /\ Staged /\ Asked /\ ForeignKeysOn /\ CleanExit

\* It holds before the first start.
LEMMA ProcessStarts == ProcessInit => ProcessInv
<1> SUFFICES ASSUME ProcessInit PROVE ProcessInv
  OBVIOUS
<1> USE DEF ProcessInit
<1>1. ProcessTypeOK
  <2>1. slot \in [Slots -> {"none", "running", "stream"}]
    OBVIOUS
  <2>2. conn \in {NoConn} \cup SUBSET Pragmas /\ cut \subseteq Slots
    OBVIOUS
  <2>3. schema \in 0 .. LastMigration /\ starts \in 0 .. MaxStarts
    BY DEF LifecycleAssumption
  <2> QED BY <2>1, <2>2, <2>3 DEF ProcessTypeOK
<1>2. Staged /\ Asked /\ ForeignKeysOn /\ CleanExit
  BY DEF Staged, Asked, ForeignKeysOn, CleanExit
<1> QED BY <1>1, <1>2 DEF ProcessInv

\* The end of the process, with requests cut off unless it is no clean one.
LEMMA EndKeeps ==
  ASSUME ProcessInv, NEW how \in {"clean", "error", "killed"}, End(how),
         how = "clean" => Running = {} /\ signalled
  PROVE  ProcessInv'
<1> USE DEF ProcessInv, End
<1>1. ProcessTypeOK'
  BY DEF ProcessTypeOK, Running, NoConn
<1>2. Staged' /\ Asked' /\ ForeignKeysOn'
  BY DEF Staged, Asked, ForeignKeysOn
<1>3. CleanExit'
  BY DEF CleanExit
<1> QED BY <1>1, <1>2, <1>3

\* Every step of the process keeps it.
LEMMA ProcessStep == ProcessInv /\ [ProcessNext]_processVars => ProcessInv'
<1> SUFFICES ASSUME ProcessInv, [ProcessNext]_processVars PROVE ProcessInv'
  OBVIOUS
<1> USE DEF ProcessInv, ProcessTypeOK, Staged, Asked, ForeignKeysOn, CleanExit
<1>1. CASE StartProcess
  <2>1. starts' \in 0 .. MaxStarts
    BY <1>1 DEF StartProcess
  <2>2. /\ main' = "open" /\ signalled' = FALSE /\ exit' = "none" /\ cut' = {}
        /\ UNCHANGED <<server, quit, slot, schema, conn>>
    BY <1>1 DEF StartProcess
  <2>3. ~quit /\ server = "none" /\ \A s \in Slots : slot[s] = "none"
    BY <1>1 DEF StartProcess
  <2>4. ProcessTypeOK'
    BY <2>1, <2>2
  <2> QED BY <2>2, <2>3, <2>4
<1>2. CASE OpenDatabase
  <2>1. CASE End("error")
    BY <2>1, EndKeeps
  <2>2. CASE ~End("error")
    <3>1. conn' = DSN \cup Pragmas
      BY <1>2, <2>2 DEF OpenDatabase
    <3>2. "foreign_keys" \in conn' /\ conn' \in SUBSET Pragmas
      BY <3>1 DEF DSN, Pragmas
    <3> QED BY <1>2, <2>2, <3>2 DEF OpenDatabase
  <2> QED BY <2>1, <2>2
<1>3. CASE Migrate
  <2>1. CASE End("error")
    BY <2>1, EndKeeps
  <2>2. CASE ~End("error")
    BY <1>3, <2>2 DEF Migrate
  <2> QED BY <2>1, <2>2
<1>4. CASE Listen \/ StopListening
  BY <1>4 DEF Listen, StopListening
<1>5. CASE Signal
  BY <1>5 DEF Signal
<1>6. CASE Expire
  BY <1>6 DEF Expire
<1>7. ASSUME NEW s \in Slots, Accept(s) \/ Finish(s) \/ CloseStream(s) PROVE ProcessInv'
  BY <1>7 DEF Accept, Finish, CloseStream
<1>8. ASSUME NEW s \in Slots, Statement(s) PROVE ProcessInv'
  <2>1. "foreign_keys" \in conn' /\ conn' \in SUBSET Pragmas
    BY <1>8 DEF Statement, DSN, Pragmas
  <2> QED BY <1>8, <2>1 DEF Statement
<1>9. CASE Select
  <2>1. CASE End("error")
    BY <2>1, EndKeeps
  <2>2. CASE ~End("error")
    BY <1>9, <2>2 DEF Select
  <2> QED BY <2>1, <2>2
<1>10. CASE ShutdownDone \/ ShutdownTimeout \/ Crash
  BY <1>10, EndKeeps DEF ShutdownDone, ShutdownTimeout, Crash
<1>11. CASE UNCHANGED processVars
  BY <1>11 DEF processVars
<1> QED
  BY <1>1, <1>2, <1>3, <1>4, <1>5, <1>6, <1>7, <1>8, <1>9, <1>10, <1>11 DEF ProcessNext

\* The state of process, file and connection keeps its type.
THEOREM ProcessTypeCorrect == ProcessSpec => []ProcessTypeOK
<1>1. ProcessInv => ProcessTypeOK
  BY DEF ProcessInv
<1> QED BY <1>1, ProcessStarts, ProcessStep, PTL DEF ProcessSpec

\* A replaced connection keeps the foreign keys, requests meet the schema of the last migration
\* however often the process died while migrating, and an exit without an error was asked for
\* and cut off no request.
THEOREM ProcessIsSound == ProcessSpec => []ProcessSound
<1>1. ProcessInv => ProcessSound
  BY DEF ProcessInv, ProcessSound, ProcessTypeOK, Staged, SchemaReady, Running
<1> QED BY <1>1, ProcessStarts, ProcessStep, PTL DEF ProcessSpec

HIDE LifecycleAssumption

----------------------------------------------------------------------------
(* The alert engine and its webhook.  Nothing here depends on which keys a pass visits. *)

USE AlertsAssumption

\* AlertsTypeOK but for what a pass works with.
TableTypeOK ==
  /\ consecutiveViolations \in [Keys -> 0 .. 2]
  /\ active \in [AlertIds -> Keys \cup {NoKey}]
  /\ notices \subseteq Notice
  /\ told \in [AlertIds -> SUBSET {"triggered", "resolved"}]
  /\ lost \in BOOLEAN
  /\ verdict \in [Keys -> {"below", "over"}]
  /\ faults \in Nat

\* A counter that runs was started by the last judgement of its key.
CountSeen == \A k \in Keys : consecutiveViolations[k] # 0 => verdict[k] = "over"

Triggered(i) == [id |-> i, event |-> "triggered"] \in notices
Resolved(i) == [id |-> i, event |-> "resolved"] \in notices

\* What is known of an alert and what is under way add up to what it is.
Adds(i) ==
  /\ active[i] # NoKey =>
       /\ ~Resolved(i)
       /\ told[i] = {} \/ (told[i] = {"triggered"} /\ ~Triggered(i))
       /\ faults = 0 => (Triggered(i) <=> told[i] = {})
  /\ active[i] = NoKey =>
       \/ told[i] = {} /\ (Triggered(i) => Resolved(i))
       \/ told[i] = {"triggered"} /\ ~Triggered(i) /\ Resolved(i)
       \/ told[i] = {"resolved"} /\ ~Resolved(i)
  /\ faults = 0 /\ active[i] = NoKey =>
       \/ told[i] = {} /\ (Triggered(i) <=> Resolved(i))
       \/ told[i] = {"triggered"} /\ ~Triggered(i) /\ Resolved(i)
       \/ told[i] = {"resolved"} /\ Triggered(i) /\ ~Resolved(i)

NoticesAdd == ~lost => \A i \in AlertIds : Adds(i)

\* The look-up by type keeps every type at one active alert, but for what failures add: the
\* reason why the alerts of each key are as few.
FewAlerts == \A t \in Types : Cardinality(ActiveOfType(t)) <= 1 + faults

AlertsInv == TableTypeOK /\ CountSeen /\ FewAlerts /\ AlertsFit /\ NoticesAdd

\* Counting alerts.
LEMMA CountAlerts ==
  ASSUME NEW S \in SUBSET AlertIds, NEW T \in SUBSET AlertIds, NEW i \in AlertIds
  PROVE  /\ Cardinality(S) \in Nat /\ Cardinality({}) = 0
         /\ S \subseteq T => Cardinality(S) <= Cardinality(T)
         /\ S \subseteq T \ {i} /\ i \in T => Cardinality(S) <= Cardinality(T) - 1
         /\ S \subseteq T \cup {i} => Cardinality(S) <= Cardinality(T) + 1
<1>1. /\ IsFiniteSet(S) /\ IsFiniteSet(T)
      /\ Cardinality(S) \in Nat /\ Cardinality(T) \in Nat
  BY FS_Subset, FS_CardinalityType
<1>2. S \subseteq T => Cardinality(S) <= Cardinality(T)
  BY <1>1, FS_Subset
<1>3. ASSUME S \subseteq T \ {i}, i \in T PROVE Cardinality(S) <= Cardinality(T) - 1
  <2>1. IsFiniteSet(T \ {i}) /\ Cardinality(T \ {i}) = Cardinality(T) - 1
    BY <1>1, <1>3, FS_RemoveElement
  <2> QED BY <1>3, <2>1, FS_Subset
<1>4. ASSUME S \subseteq T \cup {i} PROVE Cardinality(S) <= Cardinality(T) + 1
  <2>1. /\ IsFiniteSet(T \cup {i})
        /\ Cardinality(T \cup {i}) = IF i \in T THEN Cardinality(T) ELSE Cardinality(T) + 1
    BY <1>1, FS_AddElement
  <2>2. Cardinality(S) <= Cardinality(T \cup {i}) /\ Cardinality(T \cup {i}) \in Nat
    BY <1>4, <2>1, FS_Subset, FS_CardinalityType
  <2>3. CASE i \in T
    BY <1>1, <2>1, <2>2, <2>3
  <2>4. CASE i \notin T
    BY <1>1, <2>1, <2>2, <2>4
  <2> QED BY <2>3, <2>4
<1> QED BY <1>1, <1>2, <1>3, <1>4, FS_EmptySet

\* A key's alerts are some of its type's.
LEMMA KeyOfType ==
  ASSUME NEW k \in Keys
  PROVE  /\ TypeOf[k] \in Types
         /\ AlertsOf(k) \subseteq ActiveOfType(TypeOf[k])
         /\ AlertsOf(k)' \subseteq ActiveOfType(TypeOf[k])'
         /\ AlertsOf(k) \subseteq AlertIds /\ AlertsOf(k)' \subseteq AlertIds
         /\ \A t : ActiveOfType(t) \subseteq AlertIds /\ ActiveOfType(t)' \subseteq AlertIds
  BY DEF Types, AlertsOf, ActiveOfType

\* A step that judges nothing and triggers nothing keeps the table as it should be.
LEMMA FitKept ==
  ASSUME TableTypeOK, FewAlerts, AlertsFit, UNCHANGED <<active, verdict>>,
         faults' = faults \/ Fault
  PROVE  FewAlerts' /\ AlertsFit'
<1>1. faults \in Nat /\ faults' \in Nat /\ faults' >= faults
  BY DEF TableTypeOK, Fault
<1>2. \A t \in Types : ActiveOfType(t)' = ActiveOfType(t)
  BY DEF ActiveOfType
<1>3. \A k \in Keys : AlertsOf(k)' = AlertsOf(k)
  BY DEF AlertsOf
<1>5. FewAlerts'
  <2> SUFFICES ASSUME NEW t \in Types PROVE Cardinality(ActiveOfType(t)') <= 1 + faults'
    BY DEF FewAlerts
  <2>1. Cardinality(ActiveOfType(t)) <= 1 + faults /\ Cardinality(ActiveOfType(t)) \in Nat
    <3>1. IsFiniteSet(ActiveOfType(t))
      BY FS_Subset DEF ActiveOfType
    <3> QED BY <3>1, FS_CardinalityType DEF FewAlerts
  <2> QED BY <1>1, <1>2, <2>1
<1>6. AlertsFit'
  <2> SUFFICES ASSUME NEW k \in Keys
               PROVE  Cardinality(AlertsOf(k)') <= faults' + (IF verdict'[k] = "over" THEN 1 ELSE 0)
    BY DEF AlertsFit
  <2>1. /\ Cardinality(AlertsOf(k)) <= faults + (IF verdict[k] = "over" THEN 1 ELSE 0)
        /\ Cardinality(AlertsOf(k)) \in Nat
    <3>1. IsFiniteSet(AlertsOf(k))
      BY KeyOfType, FS_Subset
    <3> QED BY <3>1, FS_CardinalityType DEF AlertsFit
  <2> QED BY <1>1, <1>3, <2>1
<1> QED BY <1>5, <1>6

\* The metric that was judged, and the types, are within their bounds: so are the other keys.
LEMMA FitJudged ==
  ASSUME TableTypeOK, AlertsFit, NEW k \in Keys, faults' = faults \/ Fault,
         \A j \in Keys \ {k} : verdict'[j] = verdict[j] /\ AlertsOf(j)' \subseteq AlertsOf(j),
         Cardinality(AlertsOf(k)') <= faults' + (IF verdict'[k] = "over" THEN 1 ELSE 0)
  PROVE  AlertsFit'
<1>1. faults \in Nat /\ faults' \in Nat /\ faults' >= faults
  BY DEF TableTypeOK, Fault
<1> SUFFICES ASSUME NEW j \in Keys, j # k
             PROVE  Cardinality(AlertsOf(j)') <= faults' + (IF verdict'[j] = "over" THEN 1 ELSE 0)
  BY DEF AlertsFit
<1>2. AlertsOf(j) \subseteq AlertIds /\ AlertsOf(j)' \subseteq AlertsOf(j)
  BY KeyOfType
<1>3. IsFiniteSet(AlertsOf(j)) /\ IsFiniteSet(AlertsOf(j)')
  BY <1>2, FS_Subset
<1>4. /\ Cardinality(AlertsOf(j)') <= Cardinality(AlertsOf(j))
      /\ Cardinality(AlertsOf(j)) \in Nat /\ Cardinality(AlertsOf(j)') \in Nat
  BY <1>2, <1>3, FS_Subset, FS_CardinalityType
<1>5. Cardinality(AlertsOf(j)) <= faults + (IF verdict[j] = "over" THEN 1 ELSE 0)
  BY DEF AlertsFit
<1> QED BY <1>1, <1>4, <1>5

\* It holds of an empty table.
LEMMA AlertsStart == AlertsInit => AlertsInv
<1> SUFFICES ASSUME AlertsInit PROVE AlertsInv
  OBVIOUS
<1> USE DEF AlertsInit
<1>1. TableTypeOK
  <2>1. told \in [AlertIds -> SUBSET {"triggered", "resolved"}]
    OBVIOUS
  <2>2. consecutiveViolations \in [Keys -> 0 .. 2] /\ faults \in Nat
    OBVIOUS
  <2>3. active \in [AlertIds -> Keys \cup {NoKey}] /\ verdict \in [Keys -> {"below", "over"}]
    OBVIOUS
  <2> QED BY <2>1, <2>2, <2>3 DEF TableTypeOK
<1>2. CountSeen
  BY DEF CountSeen
<1>3. FewAlerts /\ AlertsFit
  <2>1. Cardinality({}) = 0 /\ faults = 0
    BY FS_EmptySet
  <2>2. ASSUME NEW t \in Types PROVE Cardinality(ActiveOfType(t)) <= 1 + faults
    <3>1. ActiveOfType(t) = {}
      BY DEF ActiveOfType
    <3> QED BY <2>1, <3>1
  <2>3. ASSUME NEW k \in Keys PROVE Cardinality(AlertsOf(k)) <= faults + (IF verdict[k] = "over" THEN 1 ELSE 0)
    <3>1. AlertsOf(k) = {} /\ verdict[k] = "below"
      BY DEF AlertsOf
    <3> QED BY <2>1, <3>1
  <2> QED BY <2>2, <2>3 DEF FewAlerts, AlertsFit
<1>4. NoticesAdd
  BY DEF NoticesAdd, Adds, Triggered, Resolved
<1> QED BY <1>1, <1>2, <1>3, <1>4 DEF AlertsInv

\* Whether a fault happens or not, the model counts it.
LEMMA FaultCounted == ASSUME TableTypeOK, Fault PROVE faults' \in Nat /\ faults' # 0
  BY DEF TableTypeOK, Fault

\* A key that is over may have as many alerts as its type.
LEMMA OverFits ==
  ASSUME TableTypeOK, AlertsFit, FewAlerts', NEW k \in Keys, faults' = faults \/ Fault,
         verdict' = [verdict EXCEPT ![k] = "over"],
         \A j \in Keys \ {k} : verdict'[j] = verdict[j] /\ AlertsOf(j)' \subseteq AlertsOf(j)
  PROVE  AlertsFit'
<1>1. verdict'[k] = "over"
  BY DEF TableTypeOK
<1>2. Cardinality(ActiveOfType(TypeOf[k])') <= 1 + faults'
  BY KeyOfType DEF FewAlerts
<1>3. /\ Cardinality(AlertsOf(k)') <= Cardinality(ActiveOfType(TypeOf[k])')
      /\ Cardinality(AlertsOf(k)') \in Nat /\ Cardinality(ActiveOfType(TypeOf[k])') \in Nat
  <2>1. /\ AlertsOf(k)' \subseteq ActiveOfType(TypeOf[k])'
        /\ ActiveOfType(TypeOf[k])' \subseteq AlertIds
    BY KeyOfType
  <2>2. IsFiniteSet(ActiveOfType(TypeOf[k])') /\ IsFiniteSet(AlertsOf(k)')
    BY <2>1, FS_Subset
  <2> QED BY <2>1, <2>2, FS_Subset, FS_CardinalityType
<1>4. faults' \in Nat
  BY DEF TableTypeOK, Fault
<1>5. Cardinality(AlertsOf(k)') <= faults' + (IF verdict'[k] = "over" THEN 1 ELSE 0)
  BY <1>1, <1>2, <1>3, <1>4
<1> QED BY <1>5, FitJudged

\* A judgement of a key that is over keeps the types, the counter's meaning, and the table.
LEMMA OverStep ==
  ASSUME AlertsInv, NEW k \in Keys, JudgeOver(k)
  PROVE  TableTypeOK' /\ CountSeen' /\ FewAlerts' /\ AlertsFit'
<1> USE DEF AlertsInv
<1>1. /\ verdict' = [verdict EXCEPT ![k] = "over"]
      /\ consecutiveViolations' =
           [consecutiveViolations EXCEPT ![k] = IF consecutiveViolations[k] = 0 THEN 1 ELSE 2]
      /\ lost' = lost
  BY DEF JudgeOver, Judge
<1>2. CASE /\ UNCHANGED <<active, notices, told>>
           /\ faults' = faults \/ Fault
  <2>1. TableTypeOK'
    BY <1>1, <1>2, FaultCounted DEF TableTypeOK
  <2>2. CountSeen'
    BY <1>1 DEF TableTypeOK, CountSeen
  <2>3. faults \in Nat /\ faults' \in Nat /\ faults' >= faults
    BY <1>2 DEF TableTypeOK, Fault
  <2>4. FewAlerts'
    <3> SUFFICES ASSUME NEW t \in Types PROVE Cardinality(ActiveOfType(t)') <= 1 + faults'
      BY DEF FewAlerts
    <3>1. ActiveOfType(t)' = ActiveOfType(t) /\ ActiveOfType(t) \subseteq AlertIds
      BY <1>2 DEF ActiveOfType
    <3>2. Cardinality(ActiveOfType(t)) \in Nat
      BY <3>1, FS_Subset, FS_CardinalityType
    <3> QED BY <2>3, <3>1, <3>2 DEF FewAlerts
  <2>5. \A j \in Keys \ {k} : verdict'[j] = verdict[j] /\ AlertsOf(j)' \subseteq AlertsOf(j)
    BY <1>1, <1>2 DEF AlertsOf, TableTypeOK
  <2>6. AlertsFit'
    BY <1>1, <1>2, <2>4, <2>5, OverFits
  <2> QED BY <2>1, <2>2, <2>4, <2>6
<1>3. ASSUME NEW i \in AlertIds, Unused(i), InsertAlert(i, k), FindActive(k) = {} \/ Fault,
             notices' = notices \/ Notify(i, "triggered"),
             faults' = faults \/ Fault
      PROVE  TableTypeOK' /\ CountSeen' /\ FewAlerts' /\ AlertsFit'
  <2>1. TableTypeOK'
    BY <1>1, <1>3, FaultCounted DEF TableTypeOK, InsertAlert, Notify, Notice
  <2>2. CountSeen'
    BY <1>1 DEF TableTypeOK, CountSeen
  <2>3. /\ faults \in Nat /\ faults' \in Nat /\ faults' >= faults
        /\ Fault => faults' = faults + 1
    BY <1>3 DEF TableTypeOK, Fault
  <2>4. FewAlerts'
    <3> SUFFICES ASSUME NEW t \in Types PROVE Cardinality(ActiveOfType(t)') <= 1 + faults'
      BY DEF FewAlerts
    <3> DEFINE Was == ActiveOfType(t)
               Is == ActiveOfType(t)'
    <3>1. Was \in SUBSET AlertIds /\ Is \in SUBSET AlertIds
      BY DEF ActiveOfType
    <3>2. Is \subseteq Was \cup {i} /\ (t # TypeOf[k] => Is \subseteq Was)
      BY <1>3 DEF InsertAlert, ActiveOfType, TableTypeOK
    <3>3. Cardinality(Was) <= 1 + faults
      BY DEF FewAlerts
    <3>4. t = TypeOf[k] /\ FindActive(k) = {} => Was = {}
      BY DEF FindActive
    <3> HIDE DEF Was, Is
    <3>5. /\ Cardinality(Was) \in Nat /\ Cardinality(Is) \in Nat /\ Cardinality({}) = 0
          /\ Is \subseteq Was => Cardinality(Is) <= Cardinality(Was)
          /\ Is \subseteq Was \cup {i} => Cardinality(Is) <= Cardinality(Was) + 1
      BY <3>1, CountAlerts
    <3>6. ASSUME t # TypeOf[k] PROVE Cardinality(Is) <= 1 + faults'
      BY <2>3, <3>2, <3>3, <3>5, <3>6
    <3>7. ASSUME t = TypeOf[k], FindActive(k) = {} PROVE Cardinality(Is) <= 1 + faults'
      <4>1. Cardinality(Was) = 0
        BY <3>4, <3>5, <3>7
      <4> QED BY <2>3, <3>2, <3>5, <4>1
    <3>8. ASSUME Fault PROVE Cardinality(Is) <= 1 + faults'
      BY <2>3, <3>2, <3>3, <3>5, <3>8
    <3>9. Cardinality(Is) <= 1 + faults'
      BY <1>3, <3>6, <3>7, <3>8
    <3> QED BY <3>9 DEF Is
  <2>5. \A j \in Keys \ {k} : verdict'[j] = verdict[j] /\ AlertsOf(j)' \subseteq AlertsOf(j)
    BY <1>1, <1>3 DEF AlertsOf, TableTypeOK, InsertAlert
  <2>6. AlertsFit'
    BY <1>1, <1>3, <2>4, <2>5, OverFits
  <2> QED BY <2>1, <2>2, <2>4, <2>6
<1> QED
  BY <1>2, <1>3 DEF JudgeOver, TriggerAlert, TriggerFails

\* One below the threshold resolves the alert of its type, which is its own if it has one.
LEMMA BelowStep ==
  ASSUME AlertsInv, NEW k \in Keys, JudgeBelow(k)
  PROVE  TableTypeOK' /\ CountSeen' /\ FewAlerts' /\ AlertsFit'
<1> USE DEF AlertsInv
<1>1. /\ verdict' = [verdict EXCEPT ![k] = "below"]
      /\ consecutiveViolations' = [consecutiveViolations EXCEPT ![k] = 0]
      /\ lost' = lost /\ verdict'[k] = "below"
      /\ \A j \in Keys \ {k} : verdict'[j] = verdict[j]
  BY DEF JudgeBelow, Judge, TableTypeOK
<1>2. CountSeen'
  BY <1>1 DEF TableTypeOK, CountSeen
<1>3. ASSUME NEW i \in FindActive(k), ResolveAlert(i), UNCHANGED faults
      PROVE  TableTypeOK' /\ FewAlerts' /\ AlertsFit'
  <2>1. i \in AlertIds /\ active[i] # NoKey /\ TypeOf[active[i]] = TypeOf[k]
    BY <1>3 DEF FindActive, ActiveOfType
  <2>2. TableTypeOK'
    BY <1>1, <1>3, <2>1 DEF TableTypeOK, ResolveAlert, Notify, Notice
  <2>3. faults \in Nat
    BY DEF TableTypeOK
  <2>4. \A t : ActiveOfType(t)' \subseteq ActiveOfType(t) \ {i}
    BY <1>3 DEF ResolveAlert, ActiveOfType, TableTypeOK
  <2>5. ASSUME NEW t \in Types
        PROVE  /\ Cardinality(ActiveOfType(t)') <= 1 + faults
               /\ t = TypeOf[k] => Cardinality(ActiveOfType(t)') <= faults
    <3> DEFINE Was == ActiveOfType(t)
               Is == ActiveOfType(t)'
    <3>1. Was \in SUBSET AlertIds /\ Is \in SUBSET AlertIds
      BY DEF ActiveOfType
    <3>2. Is \subseteq Was \ {i} /\ (t = TypeOf[k] => i \in Was)
      BY <2>1, <2>4 DEF ActiveOfType
    <3>3. Cardinality(Was) <= 1 + faults
      BY DEF FewAlerts
    <3> HIDE DEF Was, Is
    <3>4. /\ Cardinality(Was) \in Nat /\ Cardinality(Is) \in Nat
          /\ Is \subseteq Was => Cardinality(Is) <= Cardinality(Was)
          /\ Is \subseteq Was \ {i} /\ i \in Was => Cardinality(Is) <= Cardinality(Was) - 1
      BY <2>1, <3>1, CountAlerts
    <3>5. Cardinality(Is) <= 1 + faults /\ (t = TypeOf[k] => Cardinality(Is) <= faults)
      BY <2>3, <3>2, <3>3, <3>4
    <3> QED BY <3>5 DEF Is
  <2>6. FewAlerts'
    BY <1>3, <2>5 DEF FewAlerts
  <2>7. Cardinality(AlertsOf(k)') <= faults'
    <3>1. Cardinality(ActiveOfType(TypeOf[k])') <= faults
      BY <2>5, KeyOfType
    <3>2. /\ AlertsOf(k)' \subseteq ActiveOfType(TypeOf[k])'
          /\ ActiveOfType(TypeOf[k])' \subseteq AlertIds
      BY KeyOfType
    <3>3. IsFiniteSet(ActiveOfType(TypeOf[k])') /\ IsFiniteSet(AlertsOf(k)')
      BY <3>2, FS_Subset
    <3>4. /\ Cardinality(AlertsOf(k)') <= Cardinality(ActiveOfType(TypeOf[k])')
          /\ Cardinality(AlertsOf(k)') \in Nat /\ Cardinality(ActiveOfType(TypeOf[k])') \in Nat
      BY <3>2, <3>3, FS_Subset, FS_CardinalityType
    <3> QED BY <1>3, <2>3, <3>1, <3>4
  <2>8. \A j \in Keys \ {k} : AlertsOf(j)' \subseteq AlertsOf(j)
    BY <1>3 DEF ResolveAlert, AlertsOf, TableTypeOK, AlertsAssumption
  <2> QED BY <1>1, <1>3, <2>2, <2>3, <2>6, <2>7, <2>8, FitJudged
<1>4. ASSUME FindActive(k) = {}, UNCHANGED <<active, notices, told, faults>>
      PROVE  TableTypeOK' /\ FewAlerts' /\ AlertsFit'
  <2>1. AlertsOf(k)' = {}
    BY <1>4, KeyOfType DEF FindActive, AlertsOf
  <2>2. Cardinality(AlertsOf(k)') <= faults' /\ faults \in Nat
    BY <1>4, <2>1, FS_EmptySet DEF TableTypeOK
  <2>3. FewAlerts'
    BY <1>4 DEF FewAlerts, ActiveOfType
  <2>4. \A j \in Keys \ {k} : AlertsOf(j)' \subseteq AlertsOf(j)
    BY <1>4 DEF AlertsOf
  <2>5. TableTypeOK'
    BY <1>1, <1>4 DEF TableTypeOK
  <2> QED BY <1>1, <1>4, <2>2, <2>3, <2>4, <2>5, FitJudged
<1>5. ASSUME Fault, UNCHANGED <<active, notices, told>>
      PROVE  TableTypeOK' /\ FewAlerts' /\ AlertsFit'
  <2>1. faults \in Nat /\ faults' = faults + 1
    BY <1>5 DEF TableTypeOK, Fault
  <2>2. /\ \A t : ActiveOfType(t)' = ActiveOfType(t)
        /\ \A j : AlertsOf(j)' = AlertsOf(j)
    BY <1>5 DEF ActiveOfType, AlertsOf
  <2>3. /\ AlertsOf(k) \subseteq ActiveOfType(TypeOf[k]) /\ TypeOf[k] \in Types
        /\ ActiveOfType(TypeOf[k]) \subseteq AlertIds
    BY KeyOfType
  <2>4. IsFiniteSet(AlertsOf(k)) /\ IsFiniteSet(ActiveOfType(TypeOf[k]))
    BY <2>3, FS_Subset
  <2>5. /\ Cardinality(AlertsOf(k)) <= Cardinality(ActiveOfType(TypeOf[k]))
        /\ Cardinality(AlertsOf(k)) \in Nat /\ Cardinality(ActiveOfType(TypeOf[k])) \in Nat
    BY <2>3, <2>4, FS_Subset, FS_CardinalityType
  <2>6. Cardinality(AlertsOf(k)') <= faults'
    BY <2>1, <2>2, <2>3, <2>5 DEF FewAlerts
  <2>7. FewAlerts'
    <3> SUFFICES ASSUME NEW t \in Types PROVE Cardinality(ActiveOfType(t)') <= 1 + faults'
      BY DEF FewAlerts
    <3>1. ActiveOfType(t) \subseteq AlertIds
      BY DEF ActiveOfType
    <3>2. Cardinality(ActiveOfType(t)) \in Nat
      BY <3>1, FS_Subset, FS_CardinalityType
    <3> QED BY <2>1, <2>2, <3>2 DEF FewAlerts
  <2>8. TableTypeOK'
    BY <1>1, <1>5, <2>1 DEF TableTypeOK
  <2> QED BY <1>1, <1>5, <2>1, <2>2, <2>6, <2>7, <2>8, FitJudged
<1> QED
  BY <1>2, <1>3, <1>4, <1>5 DEF JudgeBelow

\* The notices add up again after an alert is inserted, whether or not it is announced.
LEMMA InsertAdds ==
  ASSUME AlertsInv, NEW k \in Keys, NEW i \in AlertIds, Unused(i), InsertAlert(i, k), lost' = lost,
         \/ Notify(i, "triggered") /\ (faults' = faults \/ Fault)
         \/ notices' = notices /\ Fault
  PROVE  NoticesAdd'
<1> SUFFICES ASSUME ~lost, NEW j \in AlertIds PROVE Adds(j)'
  BY DEF NoticesAdd
<1>1. Adds(j) /\ (faults' = 0 => faults = 0) /\ faults \in Nat
  BY FaultCounted DEF AlertsInv, TableTypeOK, NoticesAdd
<1>2. CASE j # i
  <2>1. active'[j] = active[j] /\ told'[j] = told[j]
    BY <1>2 DEF InsertAlert, AlertsInv, TableTypeOK
  <2>2. (Triggered(j)' <=> Triggered(j)) /\ (Resolved(j)' <=> Resolved(j))
    BY <1>2 DEF Notify, Triggered, Resolved
  <2> QED BY <1>1, <2>1, <2>2 DEF Adds
<1>3. CASE j = i
  <2>1. active'[i] = k /\ k # NoKey /\ told'[i] = {}
    BY DEF InsertAlert, AlertsInv, TableTypeOK
  <2>2. ~Triggered(i) /\ ~Resolved(i)
    BY DEF Unused, Triggered, Resolved
  <2>3. CASE Notify(i, "triggered")
    BY <1>3, <2>1, <2>2, <2>3 DEF Adds, Notify, Triggered, Resolved
  <2>4. CASE notices' = notices /\ Fault
    <3>1. faults' # 0
      BY <2>4, FaultCounted DEF AlertsInv
    <3> QED BY <1>3, <2>1, <2>2, <2>4, <3>1 DEF Adds, Triggered, Resolved
  <2> QED BY <2>3, <2>4
<1> QED BY <1>2, <1>3

\* So they do when an alert is resolved.
LEMMA ResolveAdds ==
  ASSUME AlertsInv, NEW i \in AlertIds, active[i] # NoKey, ResolveAlert(i), lost' = lost, faults' = faults
  PROVE  NoticesAdd'
<1> SUFFICES ASSUME ~lost, NEW j \in AlertIds PROVE Adds(j)'
  BY DEF NoticesAdd
<1>1. Adds(j)
  BY DEF AlertsInv, NoticesAdd
<1>2. CASE j # i
  <2>1. active'[j] = active[j] /\ told'[j] = told[j]
    BY <1>2 DEF ResolveAlert, AlertsInv, TableTypeOK
  <2>2. (Triggered(j)' <=> Triggered(j)) /\ (Resolved(j)' <=> Resolved(j))
    BY <1>2 DEF ResolveAlert, Notify, Triggered, Resolved
  <2> QED BY <1>1, <2>1, <2>2 DEF Adds
<1>3. CASE j = i
  <2>1. active'[i] = NoKey /\ told'[i] = told[i]
    BY DEF ResolveAlert, AlertsInv, TableTypeOK
  <2>2. (Triggered(i)' <=> Triggered(i)) /\ Resolved(i)'
    BY DEF ResolveAlert, Notify, Triggered, Resolved
  <2> QED BY <1>1, <1>3, <2>1, <2>2 DEF Adds
<1> QED BY <1>2, <1>3

\* And when a notice arrives.
LEMMA HeardAdds ==
  ASSUME AlertsInv, NEW n \in notices, notices' = notices \ {n},
         told' = [told EXCEPT ![n.id] = Heard(n.id, n.event)],
         UNCHANGED <<active, lost, faults>>
  PROVE  NoticesAdd'
<1> SUFFICES ASSUME ~lost, NEW j \in AlertIds PROVE Adds(j)'
  BY DEF NoticesAdd
<1>1. Adds(j) /\ n \in Notice /\ told[j] \in SUBSET {"triggered", "resolved"}
  BY DEF AlertsInv, TableTypeOK, NoticesAdd
<1>2. CASE j # n.id
  <2>1. told'[j] = told[j]
    BY <1>1, <1>2 DEF AlertsInv, TableTypeOK
  <2>2. (Triggered(j)' <=> Triggered(j)) /\ (Resolved(j)' <=> Resolved(j))
    BY <1>2 DEF Triggered, Resolved
  <2> QED BY <1>1, <2>1, <2>2 DEF Adds
<1>3. CASE j = n.id
  <2>1. told'[j] = IF told[j] \cup {n.event} = {"triggered", "resolved"}
                   THEN {} ELSE told[j] \cup {n.event}
    BY <1>1, <1>3 DEF Heard, AlertsInv, TableTypeOK
  <2>2. CASE n.event = "triggered"
    <3>1. Triggered(j) /\ ~Triggered(j)' /\ (Resolved(j)' <=> Resolved(j))
      BY <1>1, <1>3, <2>2 DEF Triggered, Resolved, Notice
    <3>2. \/ told[j] = {} /\ told'[j] = {"triggered"}
          \/ told[j] = {"resolved"} /\ told'[j] = {}
      BY <1>1, <2>1, <2>2, <3>1 DEF Adds
    <3> QED BY <1>1, <3>1, <3>2 DEF Adds
  <2>3. CASE n.event = "resolved"
    <3>1. Resolved(j) /\ ~Resolved(j)' /\ (Triggered(j)' <=> Triggered(j))
      BY <1>1, <1>3, <2>3 DEF Triggered, Resolved, Notice
    <3>2. \/ told[j] = {} /\ told'[j] = {"resolved"}
          \/ told[j] = {"triggered"} /\ told'[j] = {}
      BY <1>1, <2>1, <2>3, <3>1 DEF Adds
    <3> QED BY <1>1, <3>1, <3>2 DEF Adds
  <2> QED BY <1>1, <2>2, <2>3 DEF Notice
<1> QED BY <1>2, <1>3

\* Every step of the engine, the webhook or the server keeps the invariant.
LEMMA AlertsStep == AlertsInv /\ [AlertsNext]_alertVars => AlertsInv'
<1> SUFFICES ASSUME AlertsInv, [AlertsNext]_alertVars PROVE AlertsInv'
  OBVIOUS
<1> USE DEF AlertsInv
<1>1. CASE UNCHANGED <<consecutiveViolations, active, webhook, verdict, faults>>
  <2>1. FewAlerts' /\ AlertsFit'
    BY <1>1, FitKept
  <2> QED
    BY <1>1, <2>1 DEF webhook, TableTypeOK, CountSeen, NoticesAdd, Adds, Triggered, Resolved
<1>2. ASSUME NEW k \in Keys, JudgeOver(k) PROVE AlertsInv'
  <2>1. TableTypeOK' /\ CountSeen' /\ FewAlerts' /\ AlertsFit'
    BY <1>2, OverStep
  <2>2. lost' = lost
    BY <1>2 DEF JudgeOver
  <2>3. CASE UNCHANGED <<active, notices, told>> /\ (faults' = faults \/ Fault)
    <3>1. faults' = 0 => faults = 0
      BY <2>3, FaultCounted
    <3> QED BY <2>1, <2>2, <2>3, <3>1 DEF NoticesAdd, Adds, Triggered, Resolved
  <2>4. ASSUME NEW i \in AlertIds, Unused(i), InsertAlert(i, k),
               \/ Notify(i, "triggered") /\ (faults' = faults \/ Fault)
               \/ notices' = notices /\ Fault
        PROVE  AlertsInv'
    BY <2>1, <2>2, <2>4, InsertAdds
  <2> QED BY <1>2, <2>3, <2>4, <2>1 DEF JudgeOver, TriggerAlert, TriggerFails
<1>3. ASSUME NEW k \in Keys, JudgeBelow(k) PROVE AlertsInv'
  <2>1. TableTypeOK' /\ CountSeen' /\ FewAlerts' /\ AlertsFit'
    BY <1>3, BelowStep
  <2>2. lost' = lost
    BY <1>3 DEF JudgeBelow
  <2>3. CASE UNCHANGED <<active, notices, told>> /\ (faults' = faults \/ Fault)
    <3>1. faults' = 0 => faults = 0
      BY <2>3, FaultCounted
    <3> QED BY <2>1, <2>2, <2>3, <3>1 DEF NoticesAdd, Adds, Triggered, Resolved
  <2>4. ASSUME NEW i \in FindActive(k), ResolveAlert(i), faults' = faults PROVE AlertsInv'
    <3>1. i \in AlertIds /\ active[i] # NoKey
      BY DEF FindActive, ActiveOfType
    <3> QED BY <2>1, <2>2, <2>4, <3>1, ResolveAdds
  <2> QED BY <1>3, <2>3, <2>4 DEF JudgeBelow
<1>4. ASSUME NEW n \in notices, SendWebhook(n) PROVE AlertsInv'
  <2>1. n \in Notice /\ n.id \in AlertIds /\ n.event \in {"triggered", "resolved"}
    BY DEF TableTypeOK, Notice
  <2>2. UNCHANGED <<active, consecutiveViolations, verdict>> /\ notices' = notices \ {n}
    BY <1>4 DEF SendWebhook
  <2>3. CASE told' = [told EXCEPT ![n.id] = Heard(n.id, n.event)] /\ UNCHANGED <<lost, faults>>
    <3>1. Heard(n.id, n.event) \in SUBSET {"triggered", "resolved"}
      BY <2>1 DEF Heard, TableTypeOK
    <3>2. TableTypeOK'
      BY <2>1, <2>2, <2>3, <3>1 DEF TableTypeOK
    <3>3. NoticesAdd'
      BY <2>2, <2>3, HeardAdds
    <3>4. FewAlerts' /\ AlertsFit'
      BY <2>2, <2>3, FitKept
    <3> QED BY <2>2, <2>3, <3>2, <3>3, <3>4 DEF CountSeen
  <2>4. CASE Fault /\ lost' = TRUE /\ told' = [i \in AlertIds |-> {}]
    <3>1. faults' \in Nat /\ faults' # 0
      BY <2>4, FaultCounted
    <3>2. told' \in [AlertIds -> SUBSET {"triggered", "resolved"}]
      BY <2>4
    <3>3. TableTypeOK'
      BY <2>2, <2>4, <3>1, <3>2 DEF TableTypeOK
    <3>4. FewAlerts' /\ AlertsFit'
      BY <2>2, <2>4, FitKept
    <3> QED BY <2>2, <2>4, <3>1, <3>3, <3>4 DEF CountSeen, NoticesAdd
  <2> QED BY <1>4, <2>3, <2>4 DEF SendWebhook
<1>5. CASE RestartServer
  <2>1. /\ UNCHANGED <<active, verdict, faults>>
        /\ consecutiveViolations' = [k \in Keys |-> 0]
        /\ notices' = {} /\ lost' = (lost \/ notices # {})
        /\ told' = IF lost' THEN [i \in AlertIds |-> {}] ELSE told
    BY <1>5 DEF RestartServer
  <2>2. told' \in [AlertIds -> SUBSET {"triggered", "resolved"}]
    <3>1. [i \in AlertIds |-> {}] \in [AlertIds -> SUBSET {"triggered", "resolved"}]
      OBVIOUS
    <3> QED BY <2>1, <3>1 DEF TableTypeOK
  <2>3. consecutiveViolations' \in [Keys -> 0 .. 2]
    BY <2>1
  <2>4. TableTypeOK'
    BY <2>1, <2>2, <2>3 DEF TableTypeOK
  <2>5. NoticesAdd'
    <3> SUFFICES ASSUME ~lost', NEW i \in AlertIds PROVE Adds(i)'
      BY DEF NoticesAdd
    <3>1. ~lost /\ notices = {} /\ told' = told
      BY <2>1 DEF TableTypeOK
    <3> QED BY <2>1, <3>1 DEF NoticesAdd, Adds, Triggered, Resolved
  <2>6. FewAlerts' /\ AlertsFit'
    BY <2>1, FitKept
  <2> QED
    BY <2>1, <2>4, <2>5, <2>6 DEF CountSeen
<1> QED
  BY <1>1, <1>2, <1>3, <1>4, <1>5 DEF AlertsNext, Evaluate, SkipMetric, UpdateThresholds, alertVars

\* A pass judges places of the order, and finds a threshold for every type.
PassTypeOK == thresholds \in [Types -> Threshold] /\ todo \subseteq DOMAIN Order

LEMMA PassStep == PassTypeOK /\ [AlertsNext]_alertVars => PassTypeOK'
<1> SUFFICES ASSUME PassTypeOK, [AlertsNext]_alertVars PROVE PassTypeOK'
  OBVIOUS
<1>1. ASSUME NEW k \in Keys, JudgeOver(k) \/ JudgeBelow(k) PROVE PassTypeOK'
  BY <1>1 DEF PassTypeOK, JudgeOver, JudgeBelow, Judge, NextKey
<1>2. CASE Evaluate \/ SkipMetric
  BY <1>2 DEF PassTypeOK, Evaluate, SkipMetric, NextKey
<1>3. CASE UpdateThresholds \/ RestartServer \/ \E n \in notices : SendWebhook(n)
  BY <1>3 DEF PassTypeOK, UpdateThresholds, RestartServer, SendWebhook, AlertsAssumption
<1> QED
  BY <1>1, <1>2, <1>3 DEF AlertsNext, alertVars, PassTypeOK

\* The invariant holds throughout.
LEMMA AlertsAlways == AlertsSpec => []AlertsInv
  BY AlertsStart, AlertsStep, PTL DEF AlertsSpec

\* Counters, table, notices and what is left of a pass keep their types.
THEOREM AlertsTypeCorrect == AlertsSpec => []AlertsTypeOK
<1>1. AlertsInit => PassTypeOK
  BY DEF AlertsInit, PassTypeOK, AlertsAssumption
<1>2. AlertsSpec => []PassTypeOK
  BY <1>1, PassStep, PTL DEF AlertsSpec
<1>3. AlertsInv /\ PassTypeOK => AlertsTypeOK
  BY DEF AlertsInv, TableTypeOK, PassTypeOK, AlertsTypeOK
<1> QED BY <1>2, <1>3, AlertsAlways, PTL

\* A metric over its threshold has one alert at most and a recovered one none, but for one more
\* with every failure: across restarts, changed thresholds and any number of disks, and although
\* findActiveAlert compares the type alone.
THEOREM TableFits == AlertsSpec => []AlertsFit
<1>1. AlertsInv => AlertsFit
  BY DEF AlertsInv
<1> QED BY <1>1, AlertsAlways, PTL

\* The webhook's goroutines may overtake one another: once all notices have arrived, the
\* receiver holds no alert for active that is not, and without failures it knows them all.
THEOREM ReceiverFits == AlertsSpec => []NoticesFit
<1>1. AlertsInv => NoticesFit
  BY DEF AlertsInv, NoticesAdd, NoticesFit, Adds, Triggered, Resolved
<1> QED BY <1>1, AlertsAlways, PTL

\* A step that makes an alert active follows an earlier judgement of its key that was over.
LEMMA TriggeredTwice ==
  ASSUME AlertsInv, [AlertsNext]_alertVars, NEW i \in AlertIds, active[i] = NoKey, active'[i] # NoKey
  PROVE  verdict[active'[i]] = "over" /\ verdict'[active'[i]] = "over"
<1>1. ASSUME NEW k \in Keys, JudgeOver(k)
      PROVE  verdict[active'[i]] = "over" /\ verdict'[active'[i]] = "over"
  <2>1. consecutiveViolations[k] # 0 /\ \E j \in AlertIds : InsertAlert(j, k)
    BY <1>1 DEF JudgeOver, TriggerAlert, TriggerFails
  <2>2. active'[i] = k
    BY <2>1 DEF InsertAlert, AlertsInv, TableTypeOK
  <2>3. verdict'[k] = "over"
    BY <1>1 DEF JudgeOver, Judge, AlertsInv, TableTypeOK
  <2> QED BY <2>1, <2>2, <2>3 DEF AlertsInv, CountSeen
<1>2. ASSUME NEW k \in Keys, JudgeBelow(k) PROVE FALSE
  BY <1>2 DEF JudgeBelow, ResolveAlert, AlertsInv, TableTypeOK
<1> QED
  BY <1>1, <1>2 DEF AlertsNext, Evaluate, SkipMetric, SendWebhook, UpdateThresholds, RestartServer,
                    alertVars

\* An alert is triggered by two judgements of its own key in a row, whatever fails.
THEOREM NoFlapping == AlertsSpec => TwoInARow
<1>1. AlertsInv /\ [AlertsNext]_alertVars =>
        [\A i \in AlertIds : active[i] = NoKey /\ active'[i] # NoKey =>
           verdict[active'[i]] = "over" /\ verdict'[active'[i]] = "over"]_alertVars
  BY TriggeredTwice
<1> QED BY <1>1, AlertsAlways, PTL DEF AlertsSpec, TwoInARow

HIDE AlertsAssumption

----------------------------------------------------------------------------
(* The system's inventory *)

USE SystemInfoAssumption

Past == {"version", "list", "answered"}

\* One call collects while the once is running; the others are before it or past its end.
OnceFits ==
  /\ cachedInfoOnce = "done" <=> cachedInfo # NoInfo
  /\ \A c \in Calls : call[c] = "collect" => cachedInfoOnce = "running"
  /\ \A c, d \in Calls : call[c] = "collect" /\ call[d] = "collect" => c = d
  /\ \A c \in Calls : call[c] \in {"copy"} \cup Past => cachedInfoOnce = "done"
  /\ \A c \in Calls : call[c] \in Past => base[c] = cachedInfo

FreshLists == \A c \in Calls :
  /\ asked[c] <= containers
  /\ docker[c].list # NoList => docker[c].list >= asked[c]

InfoInv == InfoTypeOK /\ OnceFits /\ FreshLists

\* Nothing has been collected at the start.
LEMMA InfoStarts == InfoInit => InfoInv
BY DEF InfoInit, InfoInv, InfoTypeOK, OnceFits, FreshLists, NoInfo, NoList, NoDocker, Past,
       SystemInfoAssumption

\* Every step of a call, and every change of the containers, keeps its type.
LEMMA InfoTypeStep == InfoTypeOK /\ [InfoNext]_infoVars => InfoTypeOK'
<1> SUFFICES ASSUME InfoTypeOK, [InfoNext]_infoVars PROVE InfoTypeOK'
  OBVIOUS
<1> USE DEF InfoTypeOK, Go
<1> USE SystemInfoAssumption
<1>1. ASSUME NEW c \in Calls, Ask(c) PROVE InfoTypeOK'
  BY <1>1 DEF Ask, NoDocker, NoList
<1>2. ASSUME NEW c \in Calls, EnterOnce(c) PROVE InfoTypeOK'
  BY <1>2 DEF EnterOnce
<1>3. ASSUME NEW c \in Calls, CollectStatic(c) PROVE InfoTypeOK'
  BY <1>3 DEF CollectStatic
<1>4. ASSUME NEW c \in Calls, CopyBase(c) PROVE InfoTypeOK'
  BY <1>4 DEF CopyBase
<1>5. ASSUME NEW c \in Calls, TryVersion(c) PROVE InfoTypeOK'
  BY <1>5 DEF TryVersion, NoDocker, NoList
<1>6. ASSUME NEW c \in Calls, FetchContainers(c) PROVE InfoTypeOK'
  BY <1>6 DEF FetchContainers, NoList
<1>7. CASE DockerChanges
  <2>1. CASE containers' = containers /\ UNCHANGED <<docker, asked>>
    BY <1>7, <2>1 DEF DockerChanges, NoList
  <2>2. CASE containers < MaxChanges /\ containers' = containers + 1 /\ UNCHANGED answering
    <3>1. containers' \in 0 .. MaxChanges /\ 0 .. containers \subseteq 0 .. containers'
      BY <2>2
    <3>2. NoList .. containers \subseteq NoList .. containers'
      BY <2>2 DEF NoList
    <3>3. docker' \in [Calls -> [endpoint : 0 .. Endpoints, list : NoList .. containers']]
      BY <1>7, <3>2 DEF DockerChanges
    <3>4. asked' \in [Calls -> 0 .. containers']
      BY <1>7, <3>1 DEF DockerChanges
    <3> QED BY <1>7, <2>2, <3>1, <3>3, <3>4 DEF DockerChanges
  <2> QED BY <1>7, <2>1, <2>2 DEF DockerChanges
<1>8. CASE UNCHANGED infoVars
  BY <1>8 DEF infoVars
<1> QED BY <1>1, <1>2, <1>3, <1>4, <1>5, <1>6, <1>7, <1>8 DEF InfoNext

\* And it keeps the one inventory, and the lists fresh.
LEMMA InfoStep == InfoInv /\ [InfoNext]_infoVars => InfoInv'
<1> SUFFICES ASSUME InfoInv, [InfoNext]_infoVars PROVE OnceFits' /\ FreshLists'
  BY InfoTypeStep DEF InfoInv
<1> USE DEF InfoInv, InfoTypeOK, Past, Go
<1>1. ASSUME NEW c \in Calls, Ask(c) PROVE OnceFits' /\ FreshLists'
  BY <1>1 DEF Ask, OnceFits, FreshLists, NoDocker, NoList
<1>2. ASSUME NEW c \in Calls, EnterOnce(c) PROVE OnceFits' /\ FreshLists'
  BY <1>2 DEF EnterOnce, OnceFits, FreshLists
<1>3. ASSUME NEW c \in Calls, CollectStatic(c) PROVE OnceFits' /\ FreshLists'
  BY <1>3 DEF CollectStatic, OnceFits, FreshLists, NoInfo
<1>4. ASSUME NEW c \in Calls, CopyBase(c) PROVE OnceFits' /\ FreshLists'
  BY <1>4 DEF CopyBase, OnceFits, FreshLists
<1>5. ASSUME NEW c \in Calls, TryVersion(c) PROVE OnceFits' /\ FreshLists'
  <2>1. OnceFits'
    BY <1>5 DEF TryVersion, OnceFits
  <2>2. \A d \in Calls : docker'[d].list = docker[d].list \/ docker'[d].list = NoList
    BY <1>5 DEF TryVersion, NoDocker
  <2>3. FreshLists'
    BY <1>5, <2>2 DEF TryVersion, FreshLists
  <2> QED BY <2>1, <2>3
<1>6. ASSUME NEW c \in Calls, FetchContainers(c) PROVE OnceFits' /\ FreshLists'
  BY <1>6 DEF FetchContainers, OnceFits, FreshLists, NoList
<1>7. CASE DockerChanges
  BY <1>7 DEF DockerChanges, OnceFits, FreshLists
<1>8. CASE UNCHANGED infoVars
  BY <1>8 DEF infoVars, OnceFits, FreshLists
<1> QED BY <1>1, <1>2, <1>3, <1>4, <1>5, <1>6, <1>7, <1>8 DEF InfoNext

\* The once, the calls and the endpoints keep their types.
THEOREM InfoTypeCorrect == InfoSpec => []InfoTypeOK
<1>1. InfoInv => InfoTypeOK
  BY DEF InfoInv
<1> QED BY <1>1, InfoStarts, InfoStep, PTL DEF InfoSpec

\* All answers carry the one inventory that the first call collected, and no list of containers is
\* older than its request.
THEOREM InventoryShared == InfoSpec => []InfoSound
<1>1. InfoInv => InfoSound
  BY DEF InfoInv, OnceFits, FreshLists, InfoSound, Past
<1> QED BY <1>1, InfoStarts, InfoStep, PTL DEF InfoSpec

HIDE SystemInfoAssumption

----------------------------------------------------------------------------
(* The collector's readings *)

USE CollectorAssumption

\* The counters are the earlier readings and what the kernel added since, and the last reading of the disk is not
\* younger than the last of all.
ReadingsAdd ==
  /\ since.moved <= io
  /\ prevDisk # None /\ ~since.restarted => io = prevDisk.bytes + since.moved
  /\ since.start <= prevTime
  /\ ~since.missed => since.start = prevTime
  /\ prevCPU # None => busy >= prevCPU.busy /\ (~since.dipped => idle >= prevCPU.idle)

CollectorInv == CollectorTypeOK /\ ReadingsAdd

\* Unsigned subtraction is exact where nothing wraps.
LEMMA MinusExact ==
  ASSUME NEW a \in Nat, NEW b \in Nat, b <= a, a - b < Word
  PROVE  Minus(a, b) = a - b
<1> DEFINE d == a - b
<1>1. d \in Nat /\ d < Word /\ Word \in Nat
  OBVIOUS
<1> HIDE DEF d
<1>2. (d + Word) % Word = d
  BY <1>1
<1> QED BY <1>2 DEF Minus, d

\* What is known since a reading stays of its kind when one thing is noted.
LEMMA SinceUpdated ==
  ASSUME NEW M, NEW S, NEW m \in M, NEW b \in BOOLEAN,
         NEW r \in [moved : M, start : S, missed : BOOLEAN, restarted : BOOLEAN, dipped : BOOLEAN]
  PROVE  /\ [r EXCEPT !.missed = TRUE] \in
             [moved : M, start : S, missed : BOOLEAN, restarted : BOOLEAN, dipped : BOOLEAN]
         /\ [r EXCEPT !.dipped = b] \in
             [moved : M, start : S, missed : BOOLEAN, restarted : BOOLEAN, dipped : BOOLEAN]
         /\ [r EXCEPT !.restarted = TRUE, !.moved = m] \in
             [moved : M, start : S, missed : BOOLEAN, restarted : BOOLEAN, dipped : BOOLEAN]
<1>1. [r EXCEPT !.missed = TRUE] \in
        [moved : M, start : S, missed : BOOLEAN, restarted : BOOLEAN, dipped : BOOLEAN]
  OBVIOUS
<1>2. [r EXCEPT !.dipped = b] \in
        [moved : M, start : S, missed : BOOLEAN, restarted : BOOLEAN, dipped : BOOLEAN]
  OBVIOUS
<1>3. [r EXCEPT !.restarted = TRUE, !.moved = m] \in
        [moved : M, start : S, missed : BOOLEAN, restarted : BOOLEAN, dipped : BOOLEAN]
  OBVIOUS
<1> QED BY <1>1, <1>2, <1>3

\* It holds when the collector is made, whether or not the CPU could be read.
LEMMA CollectorStarts == CollectorInit => CollectorInv
<1> SUFFICES ASSUME CollectorInit PROVE CollectorInv
  OBVIOUS
<1>1. CollectorTypeOK
  BY DEF CollectorInit, CollectorTypeOK, Counts, Nothing
<1>2. ReadingsAdd
  BY DEF CollectorInit, ReadingsAdd, Nothing
<1> QED BY <1>1, <1>2 DEF CollectorInv

\* A reading, of which any part may fail, keeps it.
LEMMA CollectKeeps ==
  ASSUME CollectorInv, NEW c \in BOOLEAN, NEW d \in BOOLEAN, Collect(c, d)
  PROVE  CollectorInv'
<1> USE DEF CollectorInv, CollectorTypeOK, Counts
<1>1. UNCHANGED <<clock, attached, io, busy, idle>> /\ prevTime' = clock
  BY DEF Collect, kernelVars
<1>2. prevCPU' = IF c THEN [busy |-> busy, idle |-> idle] ELSE prevCPU
  BY DEF Collect, collectCPU
<1>3. prevDisk' = IF d /\ attached THEN [bytes |-> io] ELSE prevDisk
  BY DEF Collect, collectDisks
<1>4. /\ d /\ attached => /\ since'.moved = 0 /\ since'.start = clock
                          /\ since'.missed = FALSE /\ since'.restarted = FALSE
      /\ ~(d /\ attached) => /\ since'.moved = since.moved /\ since'.start = since.start
                             /\ since'.missed = TRUE /\ since'.restarted = since.restarted
      /\ since'.dipped = (since.dipped /\ ~c)
      /\ since' \in [moved : 0 .. MaxCount, start : 0 .. clock, missed : BOOLEAN,
                     restarted : BOOLEAN, dipped : BOOLEAN]
  <2> DEFINE dipped == since.dipped /\ ~c
             reset == IF d /\ attached THEN Nothing(clock) ELSE [since EXCEPT !.missed = TRUE]
  <2>1. since' = [reset EXCEPT !.dipped = dipped] /\ dipped \in BOOLEAN
    BY DEF Collect
  <2>2. reset \in [moved : 0 .. MaxCount, start : 0 .. clock, missed : BOOLEAN,
                 restarted : BOOLEAN, dipped : BOOLEAN]
    <3>1. Nothing(clock) \in [moved : 0 .. MaxCount, start : 0 .. clock, missed : BOOLEAN,
                             restarted : BOOLEAN, dipped : BOOLEAN]
      BY DEF Nothing
    <3> QED BY <3>1, SinceUpdated
  <2>3. d /\ attached => /\ reset.moved = 0 /\ reset.start = clock
                        /\ reset.missed = FALSE /\ reset.restarted = FALSE
    BY DEF Nothing
  <2>4. ~(d /\ attached) => /\ reset.moved = since.moved /\ reset.start = since.start
                           /\ reset.missed = TRUE /\ reset.restarted = since.restarted
    OBVIOUS
  <2> HIDE DEF dipped, reset
  <2>5. /\ since'.dipped = dipped /\ since'.moved = reset.moved /\ since'.start = reset.start
        /\ since'.missed = reset.missed /\ since'.restarted = reset.restarted
    BY <2>1, <2>2
  <2>6. since' \in [moved : 0 .. MaxCount, start : 0 .. clock, missed : BOOLEAN,
                   restarted : BOOLEAN, dipped : BOOLEAN]
    BY <2>1, <2>2, SinceUpdated
  <2> QED BY <2>3, <2>4, <2>5, <2>6 DEF dipped
<1>5. CollectorTypeOK'
  BY <1>1, <1>2, <1>3, <1>4
<1>6. ReadingsAdd'
  BY <1>1, <1>2, <1>3, <1>4 DEF ReadingsAdd
<1> QED BY <1>5, <1>6

\* So do time, the disk and the CPU.
LEMMA KernelKeeps == ASSUME CollectorInv, Kernel PROVE CollectorInv'
<1> USE DEF CollectorInv, CollectorTypeOK, Counts
<1>1. UNCHANGED <<prevTime, prevDisk, prevCPU>>
  BY DEF Kernel
<1>2. CASE clock < MaxClock /\ clock' = clock + 1 /\ UNCHANGED <<attached, io, busy, idle, since>>
  <2>1. clock' \in 0 .. MaxClock /\ 0 .. clock \subseteq 0 .. clock'
    BY <1>2
  <2>2. since' \in [moved : 0 .. MaxCount, start : 0 .. clock', missed : BOOLEAN,
                   restarted : BOOLEAN, dipped : BOOLEAN]
    BY <1>2, <2>1
  <2> QED BY <1>1, <1>2, <2>1, <2>2 DEF ReadingsAdd
<1>3. CASE DiskWorks /\ UNCHANGED <<clock, busy, idle>>
  <2>1. CASE /\ attached /\ io < MaxCount /\ io' = io + 1
             /\ since' = [since EXCEPT !.moved = @ + 1] /\ UNCHANGED attached
    <3>1. since.moved + 1 \in 0 .. MaxCount /\ io + 1 \in 0 .. MaxCount
      BY <2>1 DEF ReadingsAdd
    <3>2. CollectorTypeOK'
      BY <1>1, <1>3, <2>1, <3>1
    <3>3. ReadingsAdd'
      BY <1>1, <1>3, <2>1 DEF ReadingsAdd
    <3> QED BY <3>2, <3>3
  <2>2. CASE /\ attached' = ~attached /\ io' = (IF attached THEN io ELSE 0)
             /\ since' = [since EXCEPT !.restarted = TRUE, !.moved = IF attached THEN @ ELSE 0]
    <3>1. /\ since'.restarted /\ since'.moved = IF attached THEN since.moved ELSE 0
          /\ since'.start = since.start /\ since'.missed = since.missed /\ since'.dipped = since.dipped
      BY <2>2
    <3>2. CollectorTypeOK'
      <4>1. (IF attached THEN since.moved ELSE 0) \in 0 .. MaxCount
        OBVIOUS
      <4>2. since' \in [moved : 0 .. MaxCount, start : 0 .. clock, missed : BOOLEAN,
                       restarted : BOOLEAN, dipped : BOOLEAN]
        BY <2>2, <4>1, SinceUpdated
      <4> QED BY <1>1, <1>3, <2>2, <4>2
    <3>3. ReadingsAdd'
      BY <1>1, <1>3, <2>2, <3>1 DEF ReadingsAdd
    <3> QED BY <3>2, <3>3
  <2> QED BY <1>3, <2>1, <2>2 DEF DiskWorks
<1>4. CASE CpuWorks /\ UNCHANGED <<clock, attached, io>>
  <2>1. CASE UNCHANGED since
    BY <1>1, <1>4, <2>1 DEF CpuWorks, ReadingsAdd
  <2>2. CASE /\ idle > 0 /\ idle' = idle - 1 /\ since' = [since EXCEPT !.dipped = TRUE]
             /\ UNCHANGED busy
    <3>1. /\ since'.restarted = since.restarted /\ since'.moved = since.moved
          /\ since'.start = since.start /\ since'.missed = since.missed /\ since'.dipped
      BY <2>2
    <3>2. CollectorTypeOK'
      <4>1. since' \in [moved : 0 .. MaxCount, start : 0 .. clock, missed : BOOLEAN,
                       restarted : BOOLEAN, dipped : BOOLEAN]
        BY <2>2, SinceUpdated
      <4> QED BY <1>1, <1>4, <2>2, <4>1
    <3>3. ReadingsAdd'
      BY <1>1, <1>4, <2>2, <3>1 DEF ReadingsAdd
    <3> QED BY <3>2, <3>3
  <2> QED BY <1>4, <2>1, <2>2 DEF CpuWorks
<1> QED BY <1>2, <1>3, <1>4 DEF Kernel

LEMMA CollectorStep == CollectorInv /\ [CollectorNext]_collectorVars => CollectorInv'
<1> SUFFICES ASSUME CollectorInv, [CollectorNext]_collectorVars PROVE CollectorInv'
  OBVIOUS
<1>1. CASE CollectorNext
  BY <1>1, CollectKeeps, KernelKeeps DEF CollectorNext
<1>2. CASE UNCHANGED collectorVars
  BY <1>2 DEF collectorVars, kernelVars, CollectorInv, CollectorTypeOK, Counts, ReadingsAdd
<1> QED BY <1>1, <1>2

\* The collector's earlier readings keep their types.
THEOREM CollectorTypeCorrect == CollectorSpec => []CollectorTypeOK
<1>1. CollectorInv => CollectorTypeOK
  BY DEF CollectorInv
<1> QED BY <1>1, CollectorStarts, CollectorStep, PTL DEF CollectorSpec

\* In unsigned arithmetic of any width, whichever readings fail: as long as the kernel's counters only grow, a rate is
\* what was moved over the time since, and the usage lies between 0 and 100 percent.
THEOREM ReadingsAreSound == CollectorSpec => []ReadingsSound
<1>1. CollectorInv => ReadingsSound
  <2> SUFFICES ASSUME CollectorInv PROVE RateSound /\ UsageInRange
    BY DEF ReadingsSound
  <2> USE DEF CollectorInv, CollectorTypeOK, Counts, ReadingsAdd
  <2>1. ASSUME prevDisk # None, ~since.restarted PROVE diskRate.bytes = since.moved
    <3>1. prevDisk.bytes \in Nat /\ prevDisk.bytes <= io /\ io - prevDisk.bytes = since.moved
      BY <2>1
    <3>2. io \in Nat /\ since.moved < Word
      OBVIOUS
    <3>3. Minus(io, prevDisk.bytes) = since.moved
      BY <3>1, <3>2, MinusExact
    <3> QED BY <3>3 DEF diskRate
  <2>2. /\ diskRate.over <= AtLeast(clock - since.start)
        /\ ~since.missed => diskRate.over = AtLeast(clock - since.start)
    BY DEF diskRate, elapsed, AtLeast
  <2>3. UsageInRange
    <3> SUFFICES ASSUME prevCPU # None, ~since.dipped
                 PROVE  cpuUsagePercent.idle <= cpuUsagePercent.total
      BY DEF UsageInRange
    <3>1. /\ prevCPU.busy \in Nat /\ prevCPU.idle \in Nat
          /\ prevCPU.busy <= busy /\ prevCPU.idle <= idle
      OBVIOUS
    <3>2. Minus(idle, prevCPU.idle) = idle - prevCPU.idle
      BY <3>1, MinusExact
    <3>3. Minus(busy + idle, prevCPU.busy + prevCPU.idle) = busy + idle - (prevCPU.busy + prevCPU.idle)
      BY <3>1, MinusExact
    <3> QED BY <3>1, <3>2, <3>3 DEF cpuUsagePercent
  <2> QED BY <2>1, <2>2, <2>3 DEF RateSound
<1> QED BY <1>1, CollectorStarts, CollectorStep, PTL DEF CollectorSpec

HIDE CollectorAssumption

----------------------------------------------------------------------------
(* Versions *)

USE SystemAssumption

\* A part is a number, the ones that a tag lacks too.
LEMMA PartIsNumber ==
  ASSUME NEW tag \in Releases, NEW i \in Nat \ {0}
  PROVE  partToInt(tag, i) \in Nat
<1>1. CASE i > Len(tag)
  BY <1>1 DEF partToInt
<1>2. CASE i <= Len(tag)
  BY <1>2 DEF SystemAssumption
<1> QED BY <1>1, <1>2 DEF SystemAssumption

\* Two tags are not newer than one another.
LEMMA NewerOneWay ==
  ASSUME NEW l \in Releases, NEW c \in Releases, isNewerVersion(l, c)
  PROVE  ~isNewerVersion(c, l)
<1> SUFFICES ASSUME isNewerVersion(c, l) PROVE FALSE
  OBVIOUS
<1>1. PICK i \in 1 .. Longer(l, c) :
        /\ partToInt(l, i) > partToInt(c, i)
        /\ \A j \in 1 .. i - 1 : partToInt(l, j) = partToInt(c, j)
  BY DEF isNewerVersion
<1>2. PICK k \in 1 .. Longer(c, l) :
        /\ partToInt(c, k) > partToInt(l, k)
        /\ \A j \in 1 .. k - 1 : partToInt(c, j) = partToInt(l, j)
  BY DEF isNewerVersion
<1>3. i \in Nat \ {0} /\ k \in Nat \ {0}
  BY <1>1, <1>2 DEF Longer, SystemAssumption
<1>4. /\ partToInt(l, i) \in Nat /\ partToInt(c, i) \in Nat
      /\ partToInt(l, k) \in Nat /\ partToInt(c, k) \in Nat
  BY <1>3, PartIsNumber
<1>5. CASE i < k
  BY <1>1, <1>2, <1>3, <1>4, <1>5
<1>6. CASE k < i
  BY <1>1, <1>2, <1>3, <1>4, <1>6
<1>7. CASE i = k
  BY <1>1, <1>2, <1>4, <1>7
<1> QED BY <1>3, <1>5, <1>6, <1>7

\* The place of a release in the log.
LEMMA PlaceOfRelease ==
  ASSUME NEW tag \in Releases
  PROVE  Place(tag) \in DOMAIN ReleaseLog /\ ReleaseLog[Place(tag)] = tag
<1>1. DOMAIN ReleaseLog = 1 .. Len(ReleaseLog)
  BY DEF SystemAssumption
<1>2. \E i \in 1 .. Len(ReleaseLog) : ReleaseLog[i] = tag
  BY <1>1 DEF Releases, Range
<1> QED BY <1>1, <1>2 DEF Place

\* isNewerVersion is the order of the log.
LEMMA NewerIsLater ==
  ASSUME NEW l \in Releases, NEW c \in Releases
  PROVE  isNewerVersion(l, c) <=> Place(l) > Place(c)
<1>1. /\ Place(l) \in DOMAIN ReleaseLog /\ ReleaseLog[Place(l)] = l
      /\ Place(c) \in DOMAIN ReleaseLog /\ ReleaseLog[Place(c)] = c
  BY PlaceOfRelease
<1>2. Place(l) \in Int /\ Place(c) \in Int
  BY <1>1 DEF SystemAssumption
<1>3. CASE Place(l) > Place(c)
  BY <1>1, <1>2, <1>3 DEF SystemAssumption
<1>4. CASE Place(l) = Place(c)
  BY <1>1, <1>2, <1>4, NewerOneWay
<1>5. CASE Place(l) < Place(c)
  <2>1. isNewerVersion(c, l)
    BY <1>1, <1>2, <1>5 DEF SystemAssumption
  <2> QED BY <1>2, <1>5, <2>1, NewerOneWay
<1> QED BY <1>2, <1>3, <1>4, <1>5

----------------------------------------------------------------------------
(* The update status *)

UpdateTypeOK ==
  /\ status \in Statuses /\ copy \in Statuses
  /\ fetched \in Tags
  /\ checker \in Fields \cup {"idle"} /\ copying \subseteq Fields
  /\ torn \in BOOLEAN

\* A status speaks of one release.
Speaks(st) ==
  st.latest # NoTag =>
    st.release = st.latest /\ (st.hasUpdate <=> isNewerVersion(st.latest, Current))

\* Between two checks the status speaks of one release, within one of that which is written so far; a copy that
\* no check crosses is the status, field by field.
UpdateFits ==
  /\ checker \in {"idle", "latest"} => Speaks(status)
  /\ checker # "idle" => fetched \in Releases
  /\ checker \in {"release", "hasUpdate"} => status.latest = fetched
  /\ checker = "hasUpdate" => status.release = fetched
  /\ ~torn /\ copying # {} =>
       /\ checker = "idle"
       /\ "latest" \notin copying => copy.latest = status.latest
       /\ "release" \notin copying => copy.release = status.release
       /\ "hasUpdate" \notin copying => copy.hasUpdate = status.hasUpdate
  /\ ~torn /\ copying = {} => Speaks(copy)

UpdateInv == UpdateTypeOK /\ UpdateFits

LEMMA UpdateStarts == SystemInit => UpdateInv
<1> SUFFICES ASSUME SystemInit PROVE UpdateInv
  OBVIOUS
<1>1. status.latest = NoTag /\ copy.latest = NoTag
  BY DEF SystemInit
<1>2. UpdateTypeOK
  BY DEF SystemInit, UpdateTypeOK, Statuses, Tags, Fields
<1>3. UpdateFits
  BY <1>1 DEF SystemInit, UpdateFits, Speaks
<1> QED BY <1>2, <1>3 DEF UpdateInv

\* One assignment of a check.
LEMMA WriteKeeps == ASSUME UpdateInv, WriteField PROVE UpdateInv'
<1> USE DEF UpdateInv, UpdateTypeOK, UpdateFits, WriteField
<1>1. fetched \in Releases /\ UNCHANGED <<fetched, copy, copying, torn>>
  OBVIOUS
<1>2. ~torn => copying = {}
  OBVIOUS
<1>3. CASE checker = "latest"
  <2>1. checker' = "release" /\ status' = [status EXCEPT !.latest = fetched]
    BY <1>3 DEF NextField
  <2>2. status' \in Statuses /\ status'.latest = fetched
    BY <2>1 DEF Statuses
  <2> QED BY <1>1, <1>2, <2>1, <2>2 DEF Fields
<1>4. CASE checker = "release"
  <2>1. checker' = "hasUpdate" /\ status' = [status EXCEPT !.release = fetched]
    BY <1>4 DEF NextField
  <2>2. status' \in Statuses /\ status'.release = fetched /\ status'.latest = fetched
    BY <1>4, <2>1 DEF Statuses
  <2> QED BY <1>1, <1>2, <2>1, <2>2 DEF Fields
<1>5. CASE checker = "hasUpdate"
  <2> DEFINE newer == isNewerVersion(fetched, Current)
  <2>1. checker' = "idle" /\ status' = [status EXCEPT !.hasUpdate = newer]
    BY <1>5 DEF NextField
  <2>2. newer \in BOOLEAN
    BY DEF isNewerVersion
  <2> HIDE DEF newer
  <2>3. /\ status' \in Statuses /\ status'.release = fetched /\ status'.latest = fetched
        /\ status'.hasUpdate = newer
    BY <1>5, <2>1, <2>2 DEF Statuses
  <2>4. Speaks(status')
    BY <2>3 DEF Speaks, newer
  <2> QED BY <1>1, <1>2, <2>1, <2>3, <2>4 DEF Speaks
<1> QED BY <1>3, <1>4, <1>5 DEF Fields

\* One field of a copy.
LEMMA CopyKeeps == ASSUME UpdateInv, CopyField PROVE UpdateInv'
<1> USE DEF UpdateInv, UpdateTypeOK, UpdateFits
<1>1. PICK f \in copying : copy' = [copy EXCEPT ![f] = status[f]] /\ copying' = copying \ {f}
  BY DEF CopyField
<1>2. UNCHANGED <<status, fetched, checker, torn>>
  BY DEF CopyField
<1>3. copy' \in Statuses
  BY <1>1 DEF Statuses, Fields
<1>4. /\ copy'.latest = IF f = "latest" THEN status.latest ELSE copy.latest
      /\ copy'.release = IF f = "release" THEN status.release ELSE copy.release
      /\ copy'.hasUpdate = IF f = "hasUpdate" THEN status.hasUpdate ELSE copy.hasUpdate
  BY <1>1 DEF Statuses, Fields
<1>5. ~torn =>
        /\ checker = "idle"
        /\ "latest" \notin copying' => copy'.latest = status.latest
        /\ "release" \notin copying' => copy'.release = status.release
        /\ "hasUpdate" \notin copying' => copy'.hasUpdate = status.hasUpdate
  BY <1>1, <1>4
<1>6. ~torn /\ copying' = {} => Speaks(copy')
  BY <1>5 DEF Speaks
<1> QED BY <1>1, <1>2, <1>3, <1>5, <1>6 DEF Speaks

LEMMA UpdateStep == UpdateInv /\ [UpdateNext \/ TlsNext]_systemVars => UpdateInv'
<1> SUFFICES ASSUME UpdateInv, [UpdateNext \/ TlsNext]_systemVars PROVE UpdateInv'
  OBVIOUS
<1> USE DEF UpdateInv, UpdateTypeOK, UpdateFits
<1>1. CASE FetchLatestRelease
  BY <1>1 DEF FetchLatestRelease, Fields, Tags, Speaks
<1>2. CASE WriteField
  BY <1>2, WriteKeeps
<1>3. CASE GetUpdateStatus
  BY <1>3 DEF GetUpdateStatus, Fields, Speaks
<1>4. CASE CopyField
  BY <1>4, CopyKeeps
<1>5. CASE UNCHANGED updateVars
  BY <1>5 DEF updateVars, Speaks
<1> QED
  BY <1>1, <1>2, <1>3, <1>4, <1>5 DEF UpdateNext, TlsNext, Generate, WriteFiles, GenerateFails, systemVars

----------------------------------------------------------------------------
(* The certificate *)

TlsTypeOK ==
  /\ whole \in BOOLEAN
  /\ alone \in [Writers -> BOOLEAN]
  /\ pairs \in 0 .. MaxPairs
  /\ certFile \in 0 .. pairs /\ keyFile \in 0 .. pairs
  /\ writer \in [Writers -> {"idle", "openCert", "writeCert", "openKey", "writeKey"}]
  /\ mine \in [Writers -> 0 .. pairs]
  /\ trouble \in 0 .. MaxTrouble

\* A request that is alone finds its certificate in place when it comes to the key.
PairGrows ==
  /\ \A w \in Writers : Busy(w) => mine[w] # 0
  /\ \A w \in Writers : alone[w] /\ Busy(w) =>
       /\ \A v \in Writers : Busy(v) => v = w
       /\ writer[w] \in {"openKey", "writeKey"} => certFile = mine[w]
  /\ whole => \A w \in Writers : ~Busy(w)

TlsInv == TlsTypeOK /\ PairGrows /\ PairMatches

LEMMA TlsStarts == SystemInit => TlsInv
<1> SUFFICES ASSUME SystemInit PROVE TlsInv
  OBVIOUS
<1>1. \A w \in Writers : writer[w] = "idle"
  BY DEF SystemInit
<1>2. alone \in [Writers -> BOOLEAN]
  BY DEF SystemInit
<1>3. writer \in [Writers -> {"idle", "openCert", "writeCert", "openKey", "writeKey"}]
  BY DEF SystemInit
<1>4. mine \in [Writers -> 0 .. pairs]
  BY DEF SystemInit
<1>5. TlsTypeOK
  <2>1. 0 \in 0 .. MaxPairs /\ 0 \in 0 .. MaxTrouble /\ 0 \in 0 .. 0
    BY DEF SystemAssumption
  <2>2. pairs = 0 /\ trouble = 0 /\ certFile = 0 /\ keyFile = 0 /\ whole = FALSE
    BY DEF SystemInit
  <2> QED BY <1>2, <1>3, <1>4, <2>1, <2>2 DEF TlsTypeOK
<1>6. PairGrows /\ PairMatches
  BY <1>1 DEF SystemInit, PairGrows, PairMatches, Busy
<1> QED BY <1>5, <1>6 DEF TlsInv

LEMMA GenerateKeeps == ASSUME TlsInv, NEW w \in Writers, Generate(w) PROVE TlsInv'
<1> USE DEF TlsInv, Generate
<1>1. TlsTypeOK'
  <2>1. pairs' = pairs + 1 /\ pairs' \in 0 .. MaxPairs /\ pairs' # 0
    BY DEF TlsTypeOK, SystemAssumption
  <2>2. 0 .. pairs \subseteq 0 .. pairs' /\ pairs' \in 0 .. pairs'
    BY <2>1 DEF TlsTypeOK
  <2>3. mine' \in [Writers -> 0 .. pairs']
    BY <2>1, <2>2 DEF TlsTypeOK
  <2>4. alone' \in [Writers -> BOOLEAN]
    OBVIOUS
  <2> QED BY <2>1, <2>2, <2>3, <2>4 DEF TlsTypeOK
<1>2. PairGrows'
  <2>1. \A v \in Writers : v # w => writer'[v] = writer[v] /\ mine'[v] = mine[v] /\ ~alone'[v]
    BY DEF TlsTypeOK
  <2>2. /\ writer'[w] = "openCert" /\ mine'[w] # 0
        /\ alone'[w] => \A v \in Writers : ~Busy(v)
    <3>1. writer'[w] = "openCert" /\ mine'[w] = pairs + 1 /\ pairs + 1 # 0
      BY DEF TlsTypeOK
    <3>2. alone'[w] = (w = w /\ ~\E u \in Writers : Busy(u))
      BY Zenon
    <3> QED BY <3>1, <3>2
  <2> QED BY <2>1, <2>2 DEF PairGrows, Busy
<1>3. PairMatches'
  BY DEF PairMatches
<1> QED BY <1>1, <1>2, <1>3

LEMMA WriteFilesKeeps == ASSUME TlsInv, NEW w \in Writers, WriteFiles(w) PROVE TlsInv'
<1> USE DEF TlsInv
<1>1. /\ UNCHANGED <<pairs, mine, alone, trouble>> /\ Busy(w) /\ ~whole
      /\ \A v \in Writers : v # w => writer'[v] = writer[v]
  BY DEF WriteFiles, OpenCert, WriteCert, OpenKey, WriteKey, TlsTypeOK, PairGrows, Busy
<1>2. TlsTypeOK'
  <2>1. whole' \in BOOLEAN
    BY DEF WriteFiles, OpenCert, WriteCert, OpenKey, WriteKey, TlsTypeOK
  <2>2. certFile' \in 0 .. pairs /\ keyFile' \in 0 .. pairs
    BY DEF WriteFiles, OpenCert, WriteCert, OpenKey, WriteKey, TlsTypeOK
  <2>3. writer' \in [Writers -> {"idle", "openCert", "writeCert", "openKey", "writeKey"}]
    BY DEF WriteFiles, OpenCert, WriteCert, OpenKey, WriteKey, TlsTypeOK
  <2> QED BY <1>1, <2>1, <2>2, <2>3 DEF TlsTypeOK
<1>3. CASE OpenCert(w) \/ WriteCert(w) \/ OpenKey(w)
  <2>1. whole' = whole
    BY <1>3 DEF OpenCert, WriteCert, OpenKey
  <2>2. /\ writer'[w] = "openKey" => certFile' = mine[w]
        /\ writer'[w] = "writeKey" => certFile' = certFile /\ writer[w] = "openKey"
    BY <1>3 DEF OpenCert, WriteCert, OpenKey, TlsTypeOK
  <2>3. PairGrows'
    BY <1>1, <2>1, <2>2 DEF PairGrows, Busy
  <2> QED BY <1>1, <1>2, <2>1, <2>3 DEF PairMatches
<1>4. CASE WriteKey(w)
  <2>1. /\ writer[w] = "writeKey" /\ writer'[w] = "idle" /\ whole' = alone[w]
        /\ keyFile' = mine[w] /\ certFile' = certFile
    BY <1>4 DEF WriteKey, TlsTypeOK
  <2>2. whole' => certFile = mine[w] /\ mine[w] # 0 /\ \A v \in Writers : ~Busy(v)'
    BY <1>1, <2>1 DEF PairGrows, Busy, TlsTypeOK
  <2>3. PairGrows'
    BY <1>1, <2>1, <2>2 DEF PairGrows, Busy
  <2> QED BY <1>2, <2>1, <2>2, <2>3 DEF PairMatches
<1> QED BY <1>3, <1>4 DEF WriteFiles

LEMMA TlsStep == TlsInv /\ [UpdateNext \/ TlsNext]_systemVars => TlsInv'
<1> SUFFICES ASSUME TlsInv, [UpdateNext \/ TlsNext]_systemVars PROVE TlsInv'
  OBVIOUS
<1>1. ASSUME NEW w \in Writers, Generate(w) \/ WriteFiles(w) PROVE TlsInv'
  BY <1>1, GenerateKeeps, WriteFilesKeeps
<1>2. ASSUME NEW w \in Writers, GenerateFails(w) PROVE TlsInv'
  <2>1. TlsTypeOK'
    BY <1>2 DEF GenerateFails, TlsInv, TlsTypeOK, SystemAssumption
  <2>2. PairGrows' /\ PairMatches'
    BY <1>2 DEF GenerateFails, TlsInv, TlsTypeOK, PairGrows, PairMatches, Busy
  <2> QED BY <2>1, <2>2 DEF TlsInv
<1>3. CASE UNCHANGED tlsVars
  BY <1>3 DEF tlsVars, TlsInv, TlsTypeOK, PairGrows, PairMatches, Busy
<1> QED
  BY <1>1, <1>2, <1>3 DEF TlsNext, UpdateNext, FetchLatestRelease, WriteField, GetUpdateStatus, CopyField,
                          systemVars

----------------------------------------------------------------------------
(* Both services of the system page *)

LEMMA SystemAlways == SystemSpec => [](UpdateInv /\ TlsInv)
  BY UpdateStarts, UpdateStep, TlsStarts, TlsStep, PTL DEF SystemSpec

\* The status fields, the copy and the pair of files keep their types.
THEOREM SystemTypeCorrect == SystemSpec => []SystemTypeOK
<1>1. UpdateInv /\ TlsInv => SystemTypeOK
  BY DEF UpdateInv, UpdateTypeOK, TlsInv, TlsTypeOK, SystemTypeOK
<1> QED BY <1>1, SystemAlways, PTL

\* However many checks and generations run, in whatever order the fields are copied and whatever fails: a status
\* not copied across a check tells the truth about its release, and a generation that ran alone to its end leaves
\* a certificate and a key that belong together.
THEOREM SystemIsSound == SystemSpec => []SystemSound
<1>1. UpdateInv => UpdateTrue
  BY NewerIsLater DEF UpdateInv, UpdateTypeOK, UpdateFits, Speaks, UpdateTrue, Statuses, Tags, SystemAssumption
<1>2. TlsInv => PairMatches
  BY DEF TlsInv
<1> QED BY <1>1, <1>2, SystemAlways, PTL DEF SystemSound

HIDE SystemAssumption

=============================================================================
