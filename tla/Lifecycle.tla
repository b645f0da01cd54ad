----------------------------- MODULE Lifecycle -----------------------------
(***************************************************************************)
(* The process from start to exit (cmd/ctrld/main.go, server.go) and the   *)
(* one connection to its database (internal/db/database.go): opening,      *)
(* migrations, serving, signals and the graceful shutdown, across crashes  *)
(* and restarts.                                                           *)
(*                                                                         *)
(* The pool closes its connection after an hour and opens another one for  *)
(* the next statement: what applyPragmas has set on the first is gone,     *)
(* what stands in the DSN is not.  Of the pragmas the model keeps those    *)
(* that decide what a statement does to the data.                          *)
(***************************************************************************)
EXTENDS Integers

CONSTANTS
  Slots,          \* requests that may be served at the same time
  LastMigration,
  MaxStarts       \* bound on starts of the process

ASSUME LifecycleAssumption == LastMigration \in Nat /\ MaxStarts \in Nat

VARIABLES
  main,       \* where main is
  server,     \* where the goroutine of Server.Start is
  quit,       \* a signal waits in the channel of one
  slot,       \* what goes on in each slot
  schema,     \* the file: migrations applied
  conn,       \* the connection: the pragmas it has, or NoConn
  starts,
  exit,       \* history: how the process ended last,
  cut,        \*   requests that this end cut off,
  signalled   \*   and a signal came before it

processVars == <<main, server, quit, slot, schema, conn, starts, exit, cut, signalled>>

NoConn == {"none"}
Pragmas == {"foreign_keys", "secure_delete"}

ProcessTypeOK ==
  /\ main \in {"down", "open", "migrate", "select", "shutdown"}
  /\ server \in {"none", "starting", "listening", "closed", "failed"}
  /\ quit \in BOOLEAN /\ signalled \in BOOLEAN
  /\ slot \in [Slots -> {"none", "running", "stream"}]
  /\ schema \in 0 .. LastMigration
  /\ conn \in {NoConn} \cup SUBSET Pragmas
  /\ starts \in 0 .. MaxStarts
  /\ exit \in {"none", "clean", "error", "killed"}
  /\ cut \subseteq Slots

ProcessInit ==
  /\ main = "down" /\ server = "none" /\ quit = FALSE
  /\ slot = [s \in Slots |-> "none"]
  /\ schema = 0 /\ conn = NoConn
  /\ starts = 0 /\ exit = "none" /\ cut = {} /\ signalled = FALSE

Running == {s \in Slots : slot[s] = "running"}

\* The end of the process takes everything with it but the file.
End(how) ==
  /\ main' = "down" /\ server' = "none" /\ quit' = FALSE
  /\ slot' = [s \in Slots |-> "none"]
  /\ conn' = NoConn
  /\ exit' = how /\ cut' = Running
  /\ UNCHANGED <<schema, starts, signalled>>

----------------------------------------------------------------------------
(* Start *)

\* A configuration that cannot be loaded ends the process before this step.
StartProcess ==
  /\ main = "down" /\ starts < MaxStarts
  /\ main' = "open"
  /\ starts' = starts + 1
  /\ exit' = "none" /\ cut' = {} /\ signalled' = FALSE
  /\ UNCHANGED <<server, quit, slot, schema, conn>>

\* What the driver sets on every new connection.
DSN_WithoutKeys == {}
DSN == {"foreign_keys"}

\* Open: the first connection gets all pragmas.
OpenDatabase ==
  /\ main = "open"
  /\ \/ /\ main' = "migrate"
        /\ conn' = DSN \cup Pragmas
        /\ UNCHANGED <<server, quit, slot, schema, starts, exit, cut, signalled>>
     \/ End("error")  \* a pragma fails

\* goose.Up: each migration is a transaction of its own; after the last one main
\* starts the server's goroutine and waits for a signal or for its error.
Migrate_SkipLast ==
  /\ main = "migrate"
  /\ \/ /\ schema + 1 < LastMigration /\ schema' = schema + 1
        /\ UNCHANGED <<main, server, quit, slot, conn, starts, exit, cut, signalled>>
     \/ /\ schema + 1 >= LastMigration
        /\ main' = "select" /\ server' = "starting"
        /\ UNCHANGED <<quit, slot, schema, conn, starts, exit, cut, signalled>>
Migrate ==
  /\ main = "migrate"
  /\ \/ /\ schema < LastMigration /\ schema' = schema + 1
        /\ UNCHANGED <<main, server, quit, slot, conn, starts, exit, cut, signalled>>
     \/ /\ schema = LastMigration
        /\ main' = "select" /\ server' = "starting"
        /\ UNCHANGED <<quit, slot, schema, conn, starts, exit, cut, signalled>>
     \/ schema < LastMigration /\ End("error")

----------------------------------------------------------------------------
(* The server's goroutine and its requests *)

\* Start: the then ListenAndServe, which fails when the address is taken
\* and returns at once when Shutdown came first.  The loops of the metrics and the
\* hub run from here to its return.
Listen ==
  /\ server = "starting"
  /\ \/ main = "select" /\ server' = "listening"
     \/ main = "select" /\ server' = "failed"
     \/ main = "shutdown" /\ server' = "closed"
  /\ UNCHANGED <<main, quit, slot, schema, conn, starts, exit, cut, signalled>>

\* Shutdown closes the listener, and ListenAndServe returns without waiting for
\* what it has accepted up to here.
StopListening ==
  /\ server = "listening" /\ main = "shutdown"
  /\ server' = "closed"
  /\ UNCHANGED <<main, quit, slot, schema, conn, starts, exit, cut, signalled>>

Accept(s) ==
  /\ server = "listening"
  /\ slot[s] = "none"
  /\ slot' = [slot EXCEPT ![s] = "running"]
  /\ UNCHANGED <<main, server, quit, schema, conn, starts, exit, cut, signalled>>

\* A statement takes the pool's connection, or has it opened.
Statement(s) ==
  /\ slot[s] = "running" /\ conn = NoConn
  /\ conn' = DSN
  /\ UNCHANGED <<main, server, quit, slot, schema, starts, exit, cut, signalled>>

\* Its lifetime is over.
Expire ==
  /\ main \in {"select", "shutdown"} /\ conn # NoConn
  /\ conn' = NoConn
  /\ UNCHANGED <<main, server, quit, slot, schema, starts, exit, cut, signalled>>

\* The answer is written, or the connection is taken over by the WebSocket, for
\* which Shutdown does not wait.
Finish(s) ==
  /\ slot[s] = "running"
  /\ \E next \in {"none", "stream"} : slot' = [slot EXCEPT ![s] = next]
  /\ UNCHANGED <<main, server, quit, schema, conn, starts, exit, cut, signalled>>

CloseStream(s) ==
  /\ slot[s] = "stream"
  /\ slot' = [slot EXCEPT ![s] = "none"]
  /\ UNCHANGED <<main, server, quit, schema, conn, starts, exit, cut, signalled>>

----------------------------------------------------------------------------
(* Stop *)

\* SIGINT or SIGTERM; before signal.Notify they end the process like a crash,
\* and a second one waits in the channel for good.
Signal ==
  /\ main \in {"select", "shutdown"} /\ ~quit
  /\ quit' = TRUE /\ signalled' = TRUE
  /\ UNCHANGED <<main, server, slot, schema, conn, starts, exit, cut>>

\* The select of main: a signal begins the shutdown, an error of the server ends
\* the process at once, and when there are both either is taken.
Select ==
  /\ main = "select"
  /\ \/ /\ quit
        /\ main' = "shutdown" /\ quit' = FALSE
        /\ UNCHANGED <<server, slot, schema, conn, starts, exit, cut, signalled>>
     \/ server = "failed" /\ End("error")

\* Shutdown returns when the listener is closed and no request is being served, and
\* the deferred Close runs.
ShutdownDone_AtOnce == main = "shutdown" /\ server # "listening" /\ End("clean")
ShutdownDone ==
  /\ main = "shutdown" /\ server # "listening" /\ Running = {}
  /\ End("clean")

\* After thirty seconds os.Exit ends what still runs.
ShutdownTimeout_Never == FALSE
ShutdownTimeout ==
  /\ main = "shutdown" /\ server # "listening" /\ Running # {}
  /\ End("error")

Crash == main # "down" /\ End("killed")

ProcessNext ==
  \/ StartProcess \/ OpenDatabase \/ Migrate
  \/ Listen \/ StopListening \/ Expire
  \/ \E s \in Slots : Accept(s) \/ Statement(s) \/ Finish(s) \/ CloseStream(s)
  \/ Signal \/ Select \/ ShutdownDone \/ ShutdownTimeout \/ Crash

\* main goes on when it can, and the deadline of Shutdown passes; requests need not end.
ProcessFairness ==
  /\ WF_processVars(Select)
  /\ WF_processVars(StopListening)
  /\ WF_processVars(ShutdownDone \/ ShutdownTimeout)

ProcessSpec == ProcessInit /\ [][ProcessNext]_processVars /\ ProcessFairness

----------------------------------------------------------------------------
(* Properties *)

\* Every statement of a request runs with foreign keys enforced: "FK-Constraints
\* erzwingen", also on the connections that replace the first one.
ForeignKeysOn == conn # NoConn => "foreign_keys" \in conn

\* Requests are served only on the schema of the last migration, however often the
\* process was killed between two of them.
SchemaReady == Running # {} => schema = LastMigration

\* An exit without an error was asked for and has cut no request off.
CleanExit == exit = "clean" => cut = {} /\ signalled

ProcessSound == ForeignKeysOn /\ SchemaReady /\ CleanExit

\* "Gelöschte Daten überschreiben": deletions overwrite what they delete.
DeletedOverwritten == conn # NoConn => "secure_delete" \in conn

\* A signal ends the process, whatever its requests do.
SignalEnds == (quit \/ main = "shutdown") ~> main = "down"
=============================================================================
