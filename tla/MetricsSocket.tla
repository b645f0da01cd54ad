--------------------------- MODULE MetricsSocket ---------------------------
(***************************************************************************)
(* The browser's side of the metrics stream                                *)
(* (web/src/lib/hooks/use-metrics.ts, useMetricsWebSocket): every page     *)
(* that shows it connects on mount, tries again three seconds after a      *)
(* close and cleans up on unmount.  The token comes from localStorage and  *)
(* is checked by the server only in the handshake.  The network may refuse *)
(* or end a connection at any time.                                        *)
(***************************************************************************)
EXTENDS Integers, FiniteSets

CONSTANTS
  Pages,    \* mounts of the hook; each has refs of its own
  Sockets,  \* WebSocket objects; more than pages, so that one may linger
  NoSocket

ASSUME SocketAssumption == NoSocket \notin Sockets /\ NoSocket \notin Pages

VARIABLES
  mount,      \* whether a page has been mounted and unmounted
  wsRef,      \* the socket a page holds
  timer,      \* whether a mount's reconnect timer is set
  connected,  \* what a page shows
  sock,       \* the state of a socket
  owner,      \* the page that created it
  bearer,     \* the token it was created with
  token       \* localStorage: none, valid or expired

socketVars == <<mount, wsRef, timer, connected, sock, owner, bearer, token>>

Tokens == {"none", "valid", "expired"}

SocketTypeOK ==
  /\ mount \in [Pages -> {"new", "mounted", "unmounted"}]
  /\ wsRef \in [Pages -> Sockets \cup {NoSocket}]
  /\ timer \in [Pages -> BOOLEAN]
  /\ connected \in [Pages -> BOOLEAN]
  /\ sock \in [Sockets -> {"free", "connecting", "open", "closing"}]
  /\ owner \in [Sockets -> Pages \cup {NoSocket}]
  /\ bearer \in [Sockets -> Tokens]
  /\ token \in Tokens

SocketInit ==
  /\ mount = [p \in Pages |-> "new"]
  /\ wsRef = [p \in Pages |-> NoSocket]
  /\ timer = [p \in Pages |-> FALSE]
  /\ connected = [p \in Pages |-> FALSE]
  /\ sock = [s \in Sockets |-> "free"]
  /\ owner = [s \in Sockets |-> NoSocket]
  /\ bearer = [s \in Sockets |-> "none"]
  /\ token \in Tokens

\* connect: nothing at all without a token, not even a timer.
connect(p) ==
  IF token = "none"
  THEN UNCHANGED <<wsRef, sock, owner, bearer>>
  ELSE \E s \in Sockets :
         /\ sock[s] = "free"
         /\ \A q \in Pages \ {p} : mount[q] = "mounted" => wsRef[q] # s
         /\ wsRef' = [wsRef EXCEPT ![p] = s]
         /\ sock' = [sock EXCEPT ![s] = "connecting"]
         /\ owner' = [owner EXCEPT ![s] = p]
         /\ bearer' = [bearer EXCEPT ![s] = token]

Mount(p) ==
  /\ mount[p] = "new"
  /\ mount' = [mount EXCEPT ![p] = "mounted"]
  /\ connect(p)
  /\ UNCHANGED <<timer, connected, token>>

Closing(s) == [sock EXCEPT ![s] = IF @ = "free" THEN @ ELSE "closing"]

Unmount_KeepSocket(p) ==
  /\ mount[p] = "mounted"
  /\ mount' = [mount EXCEPT ![p] = "unmounted"]
  /\ timer' = [timer EXCEPT ![p] = FALSE]
  /\ UNCHANGED <<wsRef, connected, sock, owner, bearer, token>>
\* The effect's cleanup.
Unmount(p) ==
  /\ mount[p] = "mounted"
  /\ mount' = [mount EXCEPT ![p] = "unmounted"]
  /\ timer' = [timer EXCEPT ![p] = FALSE]
  /\ sock' = IF wsRef[p] = NoSocket THEN sock ELSE Closing(wsRef[p])
  /\ UNCHANGED <<wsRef, connected, owner, bearer, token>>

\* The handshake succeeds: onopen.
Onopen(s) ==
  /\ sock[s] = "connecting"
  /\ bearer[s] = "valid"
  /\ sock' = [sock EXCEPT ![s] = "open"]
  /\ connected' = [connected EXCEPT ![owner[s]] = @ \/ mount[owner[s]] = "mounted"]
  /\ UNCHANGED <<mount, wsRef, timer, owner, bearer, token>>

\* The handshake is refused, the connection breaks, or a close is complete: onclose, after onerror if there was one.
Onclose(s) ==
  /\ sock[s] # "free"
  /\ sock' = [sock EXCEPT ![s] = "free"]
  /\ IF mount[owner[s]] = "mounted"
     THEN /\ connected' = [connected EXCEPT ![owner[s]] = FALSE]
          /\ timer' = [timer EXCEPT ![owner[s]] = TRUE]
     ELSE UNCHANGED <<connected, timer>>
  /\ owner' = [owner EXCEPT ![s] = NoSocket]
  /\ UNCHANGED <<mount, wsRef, bearer, token>>

Reconnect(p) ==
  /\ timer[p]
  /\ timer' = [timer EXCEPT ![p] = FALSE]
  /\ IF mount[p] = "mounted" THEN connect(p) ELSE UNCHANGED <<wsRef, sock, owner, bearer>>
  /\ UNCHANGED <<mount, connected, token>>

\* tokenStore.set and tokenStore.clear, of this tab or another, and the passing of 15 minutes.
TokenChanges ==
  /\ \/ token' = "valid"
     \/ token' = "none"
     \/ token = "valid" /\ token' = "expired"
  /\ UNCHANGED <<mount, wsRef, timer, connected, sock, owner, bearer>>

SocketNext ==
  \/ \E p \in Pages : Mount(p) \/ Unmount(p) \/ Reconnect(p)
  \/ \E s \in Sockets : Onopen(s) \/ Onclose(s)
  \/ TokenChanges

----------------------------------------------------------------------------
(* Properties *)

\* A socket that is opening or open belongs to a mounted page, which holds it, so that the cleanup will close it, and
\* which has no timer running that would open a second one.
NoOrphanSocket ==
  \A s \in Sockets : sock[s] \in {"connecting", "open"} =>
    /\ owner[s] # NoSocket
    /\ mount[owner[s]] = "mounted"
    /\ wsRef[owner[s]] = s
    /\ ~timer[owner[s]]

\* A page says "connected" only while its socket is open or its end has not been reported yet.
ConnectedIsTrue ==
  \A p \in Pages : mount[p] = "mounted" =>
    (connected[p] <=> wsRef[p] # NoSocket /\ sock[wsRef[p]] = "open")

\* What a page shows and holds is true: no socket outlives its page, none is opened twice.
SocketsSound == NoOrphanSocket /\ ConnectedIsTrue
=============================================================================
