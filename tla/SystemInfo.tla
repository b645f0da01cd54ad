---------------------------- MODULE SystemInfo -----------------------------
(***************************************************************************)
(* GET /system/info (internal/metrics/system_info.go): the inventory that  *)
(* the first call collects for the life of the process, and the Docker     *)
(* part that every call asks for anew, endpoint by endpoint.               *)
(*                                                                         *)
(* Any file of the inventory may be unreadable: it is collected all the    *)
(* same, and stays partial.                                                *)
(***************************************************************************)
EXTENDS Integers

CONSTANTS
  Calls,       \* requests at the same time
  Endpoints,   \* Docker endpoints by priority: 1 .. Endpoints
  MaxChanges   \* bound on the changes of the containers

ASSUME SystemInfoAssumption == Endpoints \in Nat \ {0} /\ MaxChanges \in Nat

VARIABLES
  cachedInfoOnce, cachedInfo,
  call,         \* where each request is
  base,         \* its copy of the inventory
  docker,       \* its Docker part: the endpoint and the list it got
  answering,    \* the endpoints that answer
  containers,   \* number of changes to the containers so far
  asked         \* history: that number when the request came

infoVars == <<cachedInfoOnce, cachedInfo, call, base, docker, answering, containers, asked>>

NoInfo == "none"
NoList == -1
NoDocker == [endpoint |-> 0, list |-> NoList]

InfoTypeOK ==
  /\ cachedInfoOnce \in {"new", "running", "done"}
  /\ cachedInfo \in {NoInfo, "full", "partial"}
  /\ call \in [Calls -> {"idle", "once", "collect", "copy", "version", "list", "answered"}]
  /\ base \in [Calls -> {NoInfo, "full", "partial"}]
  /\ docker \in [Calls -> [endpoint : 0 .. Endpoints, list : NoList .. containers]]
  /\ answering \subseteq 1 .. Endpoints
  /\ containers \in 0 .. MaxChanges
  /\ asked \in [Calls -> 0 .. containers]

InfoInit ==
  /\ cachedInfoOnce = "new" /\ cachedInfo = NoInfo
  /\ call = [c \in Calls |-> "idle"]
  /\ base = [c \in Calls |-> NoInfo]
  /\ docker = [c \in Calls |-> NoDocker]
  /\ answering = {} /\ containers = 0
  /\ asked = [c \in Calls |-> 0]

Go(c, from, to) == call[c] = from /\ call' = [call EXCEPT ![c] = to]

Ask(c) ==
  /\ \E from \in {"idle", "answered"} : Go(c, from, "once")
  /\ base' = [base EXCEPT ![c] = NoInfo]
  /\ docker' = [docker EXCEPT ![c] = NoDocker]
  /\ asked' = [asked EXCEPT ![c] = containers]
  /\ UNCHANGED <<cachedInfoOnce, cachedInfo, answering, containers>>

\* cachedInfoOnce.Do: the first call collects, those that come meanwhile wait.
EnterOnce_NilCheck(c) ==
  /\ \/ Go(c, "once", "collect") /\ cachedInfo = NoInfo /\ cachedInfoOnce' = "running"
     \/ Go(c, "once", "copy") /\ cachedInfo # NoInfo /\ UNCHANGED cachedInfoOnce
  /\ UNCHANGED <<cachedInfo, base, docker, answering, containers, asked>>
EnterOnce(c) ==
  /\ \/ Go(c, "once", "collect") /\ cachedInfoOnce = "new" /\ cachedInfoOnce' = "running"
     \/ Go(c, "once", "copy") /\ cachedInfoOnce = "done" /\ UNCHANGED cachedInfoOnce
  /\ UNCHANGED <<cachedInfo, base, docker, answering, containers, asked>>

CollectStatic(c) ==
  /\ Go(c, "collect", "copy")
  /\ cachedInfo' \in {"full", "partial"}
  /\ cachedInfoOnce' = "done"
  /\ UNCHANGED <<base, docker, answering, containers, asked>>

CopyBase(c) ==
  /\ Go(c, "copy", "version")
  /\ base' = [base EXCEPT ![c] = cachedInfo]
  /\ docker' = [docker EXCEPT ![c].endpoint = 1]
  /\ UNCHANGED <<cachedInfoOnce, cachedInfo, answering, containers, asked>>

\* tryDockerEndpoint: the version first; an endpoint that does not answer, or whose
\* address has another form, leaves it to the next one.
TryVersion(c) ==
  /\ \/ /\ docker[c].endpoint \in answering
        /\ Go(c, "version", "list")
        /\ UNCHANGED docker
     \/ /\ docker[c].endpoint \notin answering /\ docker[c].endpoint < Endpoints
        /\ Go(c, "version", "version")
        /\ docker' = [docker EXCEPT ![c].endpoint = @ + 1]
     \/ /\ docker[c].endpoint \notin answering /\ docker[c].endpoint = Endpoints
        /\ Go(c, "version", "answered")
        /\ docker' = [docker EXCEPT ![c] = NoDocker]
  /\ UNCHANGED <<cachedInfoOnce, cachedInfo, base, answering, containers, asked>>

\* fetchContainers: no list when the endpoint is gone by now, or when the list is cut
\* off after 256 KB.
FetchContainers(c) ==
  /\ Go(c, "list", "answered")
  /\ \E got \in {NoList} \cup (IF docker[c].endpoint \in answering THEN {containers} ELSE {}) :
       docker' = [docker EXCEPT ![c].list = got]
  /\ UNCHANGED <<cachedInfoOnce, cachedInfo, base, answering, containers, asked>>

DockerChanges ==
  /\ \/ \E e \in 1 .. Endpoints :
          /\ answering' = IF e \in answering THEN answering \ {e} ELSE answering \cup {e}
          /\ UNCHANGED containers
     \/ containers < MaxChanges /\ containers' = containers + 1 /\ UNCHANGED answering
  /\ UNCHANGED <<cachedInfoOnce, cachedInfo, call, base, docker, asked>>

InfoNext ==
  \/ \E c \in Calls :
       Ask(c) \/ EnterOnce(c) \/ CollectStatic(c) \/ CopyBase(c) \/ TryVersion(c) \/ FetchContainers(c)
  \/ DockerChanges

----------------------------------------------------------------------------
(* Properties *)

\* All answers carry one inventory, also those of calls that came while it was being
\* collected ("einmalig beim ersten Aufruf gesammelt"), and a list of containers is as
\* fresh as its request ("bei jedem Aufruf aktualisiert").
InfoSound ==
  \A c \in Calls : call[c] = "answered" =>
    /\ base[c] # NoInfo /\ base[c] = cachedInfo
    /\ docker[c].list # NoList => docker[c].list >= asked[c]
=============================================================================
