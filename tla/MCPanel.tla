------------------------------ MODULE MCPanel ------------------------------
(***************************************************************************)
(* TLC instances of the smaller parts of the panel.  They share no state   *)
(* and are explored side by side in one run: part says which one a         *)
(* behaviour is about, the others rest in their initial states.            *)
(***************************************************************************)
EXTENDS AuditQuery, LogTail, LogRead, Collector, MetricsSocket, ServicePage, SystemPage,
        MCAlerts, AlertBadge, LogView, SystemInfo, Lifecycle

VARIABLE part

panelVars ==
  <<part, auditVars, tailVars, log, collectorVars, socketVars, serviceVars, systemVars,
    alertVars, badgeVars, viewVars, infoVars, processVars>>

\* 0.9.9, 1.2, 1.2.1 and 1.10.0
PanelReleaseLog ==
  << << <<0>>, <<9>>, <<9>> >>, << <<1>>, <<2>> >>, << <<1>>, <<2>>, <<1>> >>, << <<1>>, <<1, 0>>, <<0>> >> >>
PanelCurrent == PanelReleaseLog[2]

PanelTypeOK ==
  CASE part = "audit" -> AuditTypeOK
    [] part = "tail" -> TailTypeOK
    [] part = "log" -> LogTypeOK
    [] part = "collector" -> CollectorTypeOK
    [] part = "socket" -> SocketTypeOK
    [] part = "service" -> ServiceTypeOK
    [] part \in {"update", "tls"} -> SystemTypeOK
    [] part = "alerts" -> AlertsTypeOK
    [] part = "badge" -> BadgeTypeOK
    [] part = "view" -> ViewTypeOK
    [] part = "info" -> InfoTypeOK
    [] part = "process" -> ProcessTypeOK

PanelInit ==
  /\ part \in {"audit", "tail", "log", "collector", "socket", "service", "update", "tls",
              "alerts", "badge", "view", "info", "process"}
  /\ AuditInit /\ TailInit /\ LogInit /\ CollectorInit /\ SocketInit /\ ServiceInit /\ SystemInit
  /\ AlertsInit /\ BadgeInit /\ ViewInit /\ InfoInit /\ ProcessInit
  \* one resting state each
  /\ part # "audit" => ~filtered
  /\ part # "collector" => attached /\ prevCPU = None
  /\ part # "socket" => token = "none"

PanelNext ==
  /\ UNCHANGED part
  /\ \/ /\ part = "audit" /\ AuditNext
        /\ UNCHANGED <<tailVars, log, collectorVars, socketVars, serviceVars, systemVars,
                       alertVars, badgeVars, viewVars, infoVars, processVars>>
     \/ /\ part = "tail" /\ TailNext
        /\ UNCHANGED <<auditVars, log, collectorVars, socketVars, serviceVars, systemVars,
                       alertVars, badgeVars, viewVars, infoVars, processVars>>
     \/ /\ part = "log" /\ LogNext
        /\ UNCHANGED <<auditVars, tailVars, collectorVars, socketVars, serviceVars,
                       systemVars, alertVars, badgeVars, viewVars, infoVars, processVars>>
     \/ /\ part = "collector" /\ CollectorNext
        /\ UNCHANGED <<auditVars, tailVars, log, socketVars, serviceVars, systemVars,
                       alertVars, badgeVars, viewVars, infoVars, processVars>>
     \/ /\ part = "socket" /\ SocketNext
        /\ UNCHANGED <<auditVars, tailVars, log, collectorVars, serviceVars, systemVars,
                       alertVars, badgeVars, viewVars, infoVars, processVars>>
     \/ /\ part = "service" /\ ServiceNext
        /\ UNCHANGED <<auditVars, tailVars, log, collectorVars, socketVars, systemVars,
                       alertVars, badgeVars, viewVars, infoVars, processVars>>
     \/ /\ part = "update" /\ UpdateNext
        /\ UNCHANGED <<auditVars, tailVars, log, collectorVars, socketVars, serviceVars,
                       alertVars, badgeVars, viewVars, infoVars, processVars>>
     \/ /\ part = "tls" /\ TlsNext
        /\ UNCHANGED <<auditVars, tailVars, log, collectorVars, socketVars, serviceVars,
                       alertVars, badgeVars, viewVars, infoVars, processVars>>
     \/ /\ part = "alerts" /\ AlertsNext
        /\ UNCHANGED <<auditVars, tailVars, log, collectorVars, socketVars, serviceVars,
                       systemVars, badgeVars, viewVars, infoVars, processVars>>
     \/ /\ part = "badge" /\ BadgeNext
        /\ UNCHANGED <<auditVars, tailVars, log, collectorVars, socketVars, serviceVars,
                       systemVars, alertVars, viewVars, infoVars, processVars>>
     \/ /\ part = "view" /\ ViewNext
        /\ UNCHANGED <<auditVars, tailVars, log, collectorVars, socketVars, serviceVars,
                       systemVars, alertVars, badgeVars, infoVars, processVars>>
     \/ /\ part = "info" /\ InfoNext
        /\ UNCHANGED <<auditVars, tailVars, log, collectorVars, socketVars, serviceVars,
                       systemVars, alertVars, badgeVars, viewVars, processVars>>
     \/ /\ part = "process" /\ ProcessNext
        /\ UNCHANGED <<auditVars, tailVars, log, collectorVars, socketVars, serviceVars,
                       systemVars, alertVars, badgeVars, viewVars, infoVars>>

OfTail(A) ==
  /\ part = "tail" /\ A
  /\ UNCHANGED <<part, auditVars, log, collectorVars, socketVars, serviceVars, systemVars,
                 alertVars, badgeVars, viewVars, infoVars, processVars>>

\* The goroutines of the log tail run when they can; journalctl, the demo's ticker and the browser need not.
TailFairness ==
  /\ WF_tailVars(OfTail(StartTail)) /\ WF_tailVars(OfTail(Scan)) /\ WF_tailVars(OfTail(ReaderSend))
  /\ WF_tailVars(OfTail(Kill)) /\ WF_tailVars(OfTail(DemoEnds))
  /\ WF_tailVars(OfTail(Receive)) /\ WF_tailVars(OfTail(WriteMessage))

\* Nothing of the process is enabled where it rests but its start, of which nothing is assumed.
PanelSpec == PanelInit /\ [][PanelNext]_panelVars /\ TailFairness /\ ProcessFairness

\* The logs: a walk through the audit log skips nothing, the live log comes in order and without gaps, and the
\* answers to related queries of the stored log fit together.
LogsSound == NothingSkipped /\ TailInOrder /\ ReadSound

\* The pages: what ends a service is meant, an alert is announced once, and the live log is shown once.
PagesSound == StopsDeliberate /\ AnnouncedOnce /\ ViewSound

\* What the server measures and tells of its machine.
MachineSound == ReadingsSound /\ InfoSound
=============================================================================
