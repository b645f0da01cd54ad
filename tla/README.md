# A TLA+ model of CTRLD

CTRLD is a self-hosted server panel: a Go server (`src/internal`, wired in `src/internal/server/server.go`)
over one SQLite file, and a Next.js front end (`src/web`).  This directory models the parts whose
correctness depends on interleaving, failure and order, checks them with TLC on small instances and
proves the central ones with TLAPS for every instance.

## How the server runs

Every HTTP request runs in a goroutine of its own.  The database is opened with one connection
(`SetMaxOpenConns(1)`, `src/internal/db/database.go:34`), so **one SQL statement is atomic**; no
handler opens a transaction, so **two handlers interleave between their statements**.  That is the
grain of the models of the handlers: one action is one SQL statement with the local code that
follows it.  A statement may fail, and the process may die between two of them; each module says what
the code does then, and bounds it with `MaxFaults`.  The in-memory parts (rate limiter, alert engine,
metrics buffer) hold a mutex for a whole method, which is then one action.

## Inventory

| Component | State it keeps | Operations | Hard behaviour | What makes it correct | Modelled in |
|---|---|---|---|---|---|
| PIM engine (`pim`, `handler/pim.go`) | `pim_sessions`, `audit_log` | request, break-glass, end, check-and-record, expire | check-then-insert, check-then-count, text comparison of times | no duplicate sessions, counted actions, complete audit, the time box | `Pim` |
| Setup wizard (`setup`) | `users`, `config` | first admin, complete | check-then-insert, dropped errors | one first admin, an admin when setup is done | `UserAdmin` |
| User management (`users`, `handler/setup.go`) | `users`, `audit_log` | create, change role, deactivate | last-admin check and write are two statements; stale admin tokens | an admin remains, closed accounts stay closed | `UserAdmin` |
| Login sessions and tokens (`auth`, `middleware`) | `sessions`, JWTs in the browsers | login, refresh, logout, revoke, deactivate | rotation is read-revoke-insert; JWTs are not looked up | one successor per refresh token, revocation takes effect | `Sessions` |
| Rate limiter (`ratelimit`) | failures per address, in memory | check, record, reset, cleanup | the hash comparison runs between check and record | a lock ends the guessing and is kept | `RateLimit`, `Login` |
| MFA (`mfa`, `handler/mfa.go`) | `mfa_credentials`, `users.backup_codes` | set up, verify, use a backup code, remove | the code list is read, changed and written as a whole; set-up is two statements | a code signs in once, MFA comes with codes | `Login` |
| Metrics (`metrics`) | ring of snapshots, counters of the last reading, the inventory of the machine | collect, latest, history, system info | ring arithmetic, differences of counters, one collection for all callers | the ring is the last 60 snapshots; one inventory, fresh containers | `MetricsBuffer`, `BoundedHistory`, `Collector`, `SystemInfo` |
| WebSocket hub (`websocket`), `use-metrics.ts` | client map, channels | register, unregister, broadcast, pumps, history | channel closing, slow or silent clients, shutdown | no panic, order, everyone is served or let go | `WsHub`, `MetricsSocket` |
| Alert engine (`alerts`) | counters in memory, `alerts`, webhook goroutines | evaluate, thresholds, webhook, list | counters are lost at a restart, rows are not; thresholds change between passes; notices overtake each other | one alert while over and none after, two measurements; the receiver ends with what is active | `Alerts`, `AlertBadge` |
| Audit query (`audit`) | none | query, export | paging by offset through a growing log, two statements per page | a walk skips nothing that was there when it began | `AuditQuery` |
| systemd services (`services`, `handler/services.go`, `services/page.tsx`), processes | the page's open confirmation | list, action, kill | timeouts that are never cleared; the check before the action | a stop is clicked twice in time; nothing ends without an active PIM session | `ServicePage` |
| Log viewer (`logs`, `handler/logs.go`, `logs/page.tsx`) | channel of 256 lines; the page's socket and its last 500 lines | read, tail, start and stop live | reader goroutine, bounded channel, a browser that leaves; close events that come late; two sources that filter differently | lines in order and without gaps, handlers end, one socket per page, related queries fit together | `LogTail`, `LogView`, `LogRead` |
| Updater (`updater`) | last result | check, compare versions | the status is written without a lock; version arithmetic | the status speaks of one release; newer means newer | `SystemPage` |
| TLS manager (`tls`) | certificate and key files | generate, inspect | two files written one after the other, by any number of requests | certificate and key match | `SystemPage` |
| Front end (`web`) | tokens, sockets, timers, toasts | set-up wizard, metrics socket, live log, confirmations, alert bell | timers after unmount, steps that cannot be repeated, news told by a count | one socket per page, the wizard gets to its end, an alert is announced once | `MetricsSocket`, `SetupWizard`, `ServicePage`, `LogView`, `AlertBadge` |
| Password hashing (`auth/password.go`) | none | hash, verify | | not modelled: a pure cryptographic function |
| Process and database opening (`cmd/ctrld/main.go`, `server.go`, `db/database.go`) | the pool's connection, migrations applied, the listener | open, migrate, serve, signal, shut down | crashes between migrations; pragmas that live in a connection; shutdown against requests and streams | foreign keys always on, no request before the last migration, a signal ends the process and cuts nothing off that it need not | `Lifecycle` |
| Wiring, configuration | | | | only as the assumptions above; `setupGuard` is in `UserAdmin` |

They interact through the tables (`users` is read by setup, user management, login and MFA; `audit_log` is
written by all), through the JWT claims (a role is copied into a token and believed until it
expires), through calls (every privileged action calls `pim.CheckAndRecord`; login calls the limiter
and MFA; deactivation revokes sessions) and through channels (hub, pumps).  The handlers of alerts,
services, logs and the updater exist and are not registered in `server.go`; `ExpireOverdue` and
`alerts.Evaluate` have no caller.  No model therefore assumes that these ever run.

## Modules

**`Pim`** - `Begin` actions are the first statement of a handler, `Continue` actions the later
ones; `pc`, `caller`, `target`, `expiry` are a goroutine's locals.  The table is one function
per column.  `LaterText` is SQLite's comparison of an RFC 3339 text with `CURRENT_TIMESTAMP`: it orders
days, not times of the same day.  `insertedBy` and `grants` are history.

**`UserAdmin`** - setup and user management over `users`, `config` and `audit_log`.  `Authorised` is
`setupGuard` and the admin claim of a token; a token is never withdrawn, which over-approximates
its 15 minutes.  `NotCompleted` is `IsCompleted`, which takes a failed read for "no" and so opens the wizard again after it was
completed.  `overlapped` is history: a removal of an admin ran while another goroutine stood between its
last-admin check and its write.

**`Sessions`** - the `sessions` table and both tokens of a session.  `Accepted` is
`middleware.Require`, which trusts signature and expiry; `Live` is the row.  `pending` is the token that a login hands out
before the second factor: the middleware asks for no role, so it revokes sessions like any other, and finds no row to log out.
`parent`, `insertedBy` and `late` are history.

**`RateLimit`** and **`Login`** - the limiter's methods as operators, and the two-step login, the backup codes and the
MFA set-up that use them.  `stored` is the JSON column: the set-up its codes belong to and the unused
ones.  `lostUpdate` (a list was written over one that had not been read) and `onTheDot` (a failure at
the instant a lock ends) are history.  **`MCRateLimit`** adds a count of what `RecordFailure` has been told, to compare the counter with.

**`MCAccounts`** puts `UserAdmin`, `Sessions` and `Login` side by side in one run, as `MCPanel` does with the parts below; that is why the steps that all
handlers have (`AdminGoto`, `LoginGoto`, `Goto`) carry the part's name.

**`BoundedHistory`**, **`MetricsBuffer`**, **`WsHub`** - the promise of the metrics buffer, the ring that keeps it, and the hub
that extends the ring with its Run loop, the pumps and the browser.  A case of Run's `select` is one action: between
its channel operations nothing else happens that they could see.  `register` and `unregister` are unbuffered and so
rendezvous.  A send to a closed channel and a second close end the process (`hub = "crashed"`), in the loop (`CrashIf`) as well as
in `sendHistory`.  `LiveInOrder` speaks of `LiveAhead`, what is on its
way to a browser as pairs of a place and a snapshot.

**`Alerts`** - one action per judged key, since a pass holds the mutex and is the only writer of the table.
`todo` holds the places in `Order` that the pass has still to judge; `NextKey` is the first of them.  `consecutiveViolations` stops at 2 because the code only asks whether it is below 2.  Only active rows are kept.  Each change of
the table starts a goroutine that posts a notice; `notices` are those goroutines, `told` is what the receiver has heard, in the
order in which they happen to run - it may hear that an alert is over before it hears of it.  `verdict` and `lost` are history.
`AlertsFit` counts the alerts of each key, although the code compares types: at most one while the key is over, none when it has
recovered, and one more for every failure.  Left out
is the trend that `sendWebhook` adds: it looks `lastValues` up by `alert.Type`, which never is a disk's key and is empty in a notice of
the end, so that these always say "stable".  It reads that map without the mutex; a race there can end the process, as
`RestartServer` does.

**`AlertBadge`** - the bell polls the active alerts and takes the first of the list for new when the number has grown.
`AnnouncedOnce` shows what this gets right.  It misses alerts: one that replaces another leaves the number as it was, and neither the
first alert (`prevCount` 0) nor any but the newest of several makes a toast.  `Listings` are the answers to the query: the active alerts,
newest first.

**`AuditQuery`** - a client that walks through the log with LIMIT and OFFSET while others append: a page is two statements, the rows and
the count.  The count is of every user's rows, whatever the filter (`HasMore`), so `has_more` may send a filtered walk through an empty page.  The
filter is the one on users and severities; `action_type` is parsed by the handler and used by no query.

**`LogTail`** - the reader goroutine, its channel of `TailCap` lines and the handler that writes to the browser.  The hijacked
connection is never read, so that only a failing write tells the handler that the browser has left: on a quiet journal it stays.
`LeaverReleased` therefore speaks of journals that go on writing.

**`Collector`** - the counters of one disk, or of a CPU with its iowait, as the collector keeps them between passes, and the rates it
computes from unsigned 64-bit differences (`Word` is their width).  `ReadingsSound` holds for devices that stay and counters that do not
fall; the module says where the code wraps otherwise.

**`SystemInfo`** - requests for the inventory around the `sync.Once`, and the Docker endpoints that each asks for their version and then
for their containers.  What a file could not tell stays missing for the life of the process (`partial`); a list longer than 256 KB is no list.

**`Lifecycle`** - `main`, the goroutine of `Server.Start`, the requests, and the one connection of the pool.  The connection is the set of pragmas
that it has: the DSN's on every connection, those of `applyPragmas` on the first only.  Each migration is a transaction of goose and
one step, a crash may come before and after it.  `Shutdown` waits for the listener and for requests, not for streams: a
connection taken over by a WebSocket ends with the process.  `exit`, `cut` and `signalled` are history.

**`LogView`** - the live log's button, sockets and lines.  `close()` returns at once and its event comes later, to a handler that is the same for
all sockets: one that comes when the next socket is in use switches `live` off under it (`crossed`), and from then on two sockets may
feed the page.  Leaving the page closes nothing, so that the server's tail of that page goes on (`left`).  A change of the unit
filter does not reach a stream under way.

**`MetricsSocket`** - one page's `useMetrics`: effect, cleanup, the socket's callbacks and the reconnect timer.  A callback is one action;
an event that was queued before the cleanup runs after it.

**`SetupWizard`** - the wizard's page against the server, a request at a time; the page's awaits interleave.

**`ServicePage`** - the page that asks twice before a stop, another client of the API, and the handlers that both reach.  The page's
state is `confirm` and its timeouts; a timeout fires on time, which is what makes "in time" mean something.  `ConfirmedTwice` holds although
no timeout is cleared: one that fires late for its own click only takes a later confirmation back too early.  The PIM check is one
step here; `Pim` has its statements.  It comes before the action is validated, so a refused or failed action is counted as well.
(The package comment of `services` names start and enable among the actions that need a session; the handler, whose own
comment says so, asks for stop, disable and restart.)

**`LogRead`** - the answers to queries as operators on the log.  An answer is a set of places in the log: no reader changes the order.  The two sources differ: journalctl filters by severity "at least" and before
it counts lines, a file is filtered by "exactly", after counting and by the words of the line; a search in a file does not look at units.
A line too long for a `bufio.Scanner` makes the journal's answer an error, and makes a file end there without a word, since
`readLogFile` does not ask `scanner.Err`.

**`SystemPage`** - the update status, which a check writes field by field while requests copy it, and the certificate and key files, which
every request to generate them writes one after the other.  `torn` marks a copy across a check and `whole` a generation that ran alone to
its end; the properties speak of those, and of nothing that overlapped.  Tags are those of releases: a prerelease such
as 1.2.0-rc1 would count as newer than 1.2.0.  `ReleaseLog` lists them from the oldest to the newest, and `SystemAssumption` says that
`isNewerVersion` agrees with it from an older to a newer one.

**`MCPanel`** puts `AuditQuery`, `LogTail`, `LogRead`, `Collector`, `MetricsSocket`, `ServicePage`, `SystemPage`, `Alerts`, `AlertBadge`,
`LogView`, `SystemInfo` and `Lifecycle` side by side in one run: they share no state, and `part` says which of them a behaviour is about.
`LogsSound`, `PagesSound` and `MachineSound` join the properties of several parts.

An operator such as `Rotate_KeepOld` stands before the definition `Rotate` and is `Rotate` with a bug that one could have written there; each
property of a passing run is violated when one of them takes its definition's place, and so is each conjunct of `PagesSound`, `MachineSound` and `ProcessSound`, and
`AlertsFit` for a metric that is over and for one that is not.

## Runs

| Run | Question | Bounds, and why they are enough |
|---|---|---|
| `pim` | What survives two interleaved requests, a failure and a crash? | Two goroutines and two sessions are what a duplicate, a double end or a lost count takes; three-unit days and four units of time put a midnight between a session's expiry and its end |
| `pim_expiry` (violated) | Is the time box kept (`src/README.md:94`)? | as above |
| `accounts` | Does the last admin survive sequences, stale tokens and failures?  Do rotation, deactivation and revocation hold in two goroutines?  What do limiter, backup codes and the MFA set-up promise? | Two accounts and two goroutines suffice for an overlapping removal; three accounts without failures were checked too.  Three sessions make a fork or a chain of two successors, and in two instants access tokens expire and refresh tokens outlive them; a third instant, in which those expire too, was checked for the sessions alone.  Locks after 2 and 3 failures with two goroutines reach the long lock; two lists of two codes reach a lost update |
| `last_admin` (violated) | "last-admin protection" (`src/README.md:43`) | as above |
| `revoked_token` (violated) | "short TTL (15 min) + server-side invalidation" (`src/README.md:93`) | One session that is logged out |
| `setup_wizard` (violated) | "guided through the setup wizard on first run" (`src/README.md:153`) | One tab is enough: it gets no further than its second step |
| `long_lock` (violated) | "3 failures → 5 min, 10 → 1h" (`src/README.md:44`, `src/internal/ratelimit/ratelimit.go:12`) | One client, one goroutine: a lock after two failures, the third failure when it is over |
| `hub` | Order, liveness and clean-up of a stream | One connection, since a broadcast treats clients one by one; channels of two and a ring of two overflow and wrap with three snapshots |
| `hub_panic` (violated) | "läuft bis Context abgebrochen wird" (`src/internal/websocket/hub.go:73`) | as above |
| `alert_crosstalk` (violated) | "löst sich automatisch auf" (`src/internal/alerts/service.go:5`) | as above |
| `secure_delete` (violated) | "Gelöschte Daten überschreiben" (`src/internal/db/database.go:66`) | One connection that is replaced once |
| `panel` | Paging, log tail, log queries and live log, rates and inventory, reconnecting, stopping services, alerts with webhook and bell, update status, certificate, the process: do the smaller parts keep their promises? | Four rows in pages of one to three let rows arrive before, between and after pages; counters up to 2 in words of 16 tell a small difference from a wrapped one; five lines overfill a channel of two; two pages and three sockets leave room for one that lingers; three lines against answers of one and two show what a limit cuts; two units and a timeout of two ticks let an old timeout meet a new confirmation; four releases with 1.10 and a two-part tag; two requests and three pairs of files write across each other and once alone afterwards; the CPU and two disks are a type with one resource and one with two, and two ids, taken again only when no notice of theirs is left, hold an alert of each type with its notices; four alerts over three seconds and two toasts; three live sockets, one of which is late, and three lines on a page of two; two requests for the inventory over two endpoints; two requests or streams, three migrations and two starts of the process |

Symmetry over goroutines and identifiers is used only where all properties are safety properties.
Deadlock checking is off where the bounds (clock, ids, connections) end every behaviour.

### Findings

* **The time box has the grain of a day.**  `expires_at` holds `2025-01-02T10:00:00Z` and is compared as text with
  `2025-01-02 10:00:00`; on the day of its expiry a session stays active until midnight UTC.  `OverrunBelowADay` is the
  bound that remains, and it is proved.
* **The last admin can be removed by two overlapping requests.**  `AdminRemains` shows that nothing else removes it.
* **A revoked session's access token goes on working.**  `middleware.Require` looks at no row, so that a logout, a revocation and a
  deactivation reach a token only when it expires.  `RevokedDiesWithToken`, proved, is what is left of "server-side invalidation".
* **The lock of an hour is not earned by ten failures.**  After three an address is locked for five minutes, `Login` counts nothing
  meanwhile, and the first failure afterwards counts as one.  Only requests that have passed `IsBlocked` together get further:
  `LockBoundsGuesses`, proved, says how far.  (The limiter's own test calls `RecordFailure` ten times in a row, as `Login` never does.)
* **The set-up wizard stops at its second step.**  `apiFetch` sends no `Authorization` header, the TOTP set-up is behind
  `middleware.Require`, and the first step cannot be repeated: it answers ADMIN_EXISTS.  With a token the wizard's property holds.
* **A browser that leaves at once can end the server**: `sendHistory` sends on a channel that `unregister` has closed.
  `OnlyLateHistoryPanics` shows that this is the only way: the loop never closes a channel twice and never sends on a closed one.
* **Disks resolve each other's alerts**: `findActiveAlert` ignores the resource.  While one disk is full and another is
  not, the alert is triggered and resolved in every pass.
* **`secure_delete` ends with the first connection.**  The pool replaces its connection after an hour, and only what stands in the DSN is set on the
  new one; the foreign keys stand there too (`ForeignKeysOn`, proved), `secure_delete` does not.

A property with "without failures" or "unless they overlap" bounds a hazard: the failure or the overlap happens in the model, and the
property says that nothing else has that effect.  A backup code, for one, is accepted twice only by way of a lost update or a failed write
(`BackupCodeOnce`), and a user has two active sessions only after two requests that overlapped or a look-up that failed
(`OnlyOverlapDuplicates`).

## Fairness

`WsHub`, `LogTail`, `Lifecycle` and `SetupWizard` have liveness properties.  `WsHub` assumes weak fairness of every step of a goroutine that can go on - the Go
scheduler runs runnable goroutines, and `select` picks among ready cases at random, so that a case which stays
ready is taken - and of nothing else: the collector may fail for ever, browsers may connect, close or fall silent,
the context may be cancelled or not.  A silent peer is noticed by the read and write deadlines, which is the weak
fairness of `ReaderEnds` and `WriterEnds`.  `HubTick` assumes that the one-second ticker does not fill the 256 places of the broadcast
channel without a broadcast being handled in between: a loop that met a full channel would wait for itself for ever.

`TailFairness` in `MCPanel` asks the same of the goroutines of the log tail; journalctl need not write and the browser need not leave.
`ProcessFairness` is that main takes a ready case of its `select`, that `ListenAndServe` returns once `Shutdown` has closed the listener, and that
`Shutdown` returns when it may: with nothing left to serve, or at its deadline of thirty seconds.  Requests need not end.
`SetupWizard` assumes that the user goes on submitting and that the server answers, which is what the sentence of the README it is
checked against is about.

## Proofs

Eight modules prove type correctness and every safety property and action property that a run finds to hold, for all values of the
constants: any number of users, goroutines, rows, connections, sockets.  Each follows one argument: an inductive invariant holds initially
and is preserved by every action, one step per action; theorems take their conjunct from it.  A property of steps follows from the
invariant and the step.

* `PimProofs`.  `PimInv` adds to the properties what the locals of a goroutine are worth: a goroutine about to insert owns none of
  its user's active rows (`PendingOwnsNone`), without which `OnlyOverlapDuplicates` is not inductive; a row about
  to be reported as ended has ended (`InFlight`); rows that do not exist have no history (`Unused`).
* `UserAdminProofs`.  `UserAdminInv` adds that a goroutine past its last-admin check leaves an admin behind (`OtherAdminLeft`), that until
  setup is done only the wizard runs (`WizardAlone`), and that the first admin starts an unbroken series (`AdminSinceFirst`).
* `SessionsProofs`.  `SessionsInv` adds that a goroutine past the rotation has revoked what it exchanges (`PendingRotated`), has not exchanged it
  before (`PendingFirst`), and never works on a straggler once it has found its user active (`LateInv`).
* `LoginProofs`.  `CodesInv`: a code in the stored list has not been used, and a set-up about to store a list has one that nobody has seen and that
  is its own (`Once`) - as long as no list was overwritten and no write failed.  `LockFits`: a lock ends no later than one that began now would,
  so that further failures only move it on.  `Crowd`: while a lock runs, the count of its address and the requests that have
  passed `IsBlocked` together stay below the short limit plus the number of goroutines; a step moves a goroutine out of a finite set,
  which is why the theorem assumes that the goroutines are finitely many.
* `WsHubProofs`.  `HubInv` adds to the types that a channel that was closed is no member's (`ClosedIsGone`), which is why nothing in the
  loop panics, and that the cells before `head` are filled, and all of them once `count` has reached the size
  (`Filled`).  The ring is the bounded history by `Cell`, the place of the i-th oldest snapshot without a remainder: every step of the
  hub is a step of `BoundedHistory` or leaves it alone.  `OrderInv` follows the stream of one browser: the broadcast queue is in order
  (`QueueInLine`), what a browser received last, what is in its client's buffer and what is still queued for it follow each other
  (`InLine`), and a client that has not been registered has received nothing live (`Unregistered`).
* `ServerProofs`, the parts of the server.
  - `Lifecycle`.  `Staged`: where `main` stands decides what else there can be - requests only past the last migration; `Asked`: a shutdown
    had its signal.
  - `Alerts`.  The look-up by type keeps every type at one active alert and one more per failure (`FewAlerts`), from which the bound of each
    key follows.  A running count was started by the last judgement of its own key (`CountSeen`), and what the receiver has heard of an alert and
    what is still under way add up to what the alert is (`Adds`), which is what a notice that overtakes another needs.
  - `SystemInfo`.  `OnceFits`: one request collects and the others are before it or past its end; `FreshLists`: an answered list
    of containers is no older than the request.
  - `Collector`.  `ReadingsAdd`: counters are the earlier readings and what was added since, whatever was missed, restarted or fell in
    between; a rate computed in words of any width is then the true one.
  - `SystemPage`.  `UpdateFits`: a status speaks of one release between two checks, and a copy that no check crosses is the status.
    `PairGrows`: a request that is alone finds its own certificate in place when it comes to the key.
* `PagesProofs`, the parts of the front end.
  - `ServicePage`.  `ConfirmFresh`: an open confirmation stands for the last click and one of the timeouts still running is that
    click's; `Checked`: a request past the PIM check had one.
  - `LogView`.  `ViewFits`: of this page's sockets only the one in use is open, and it goes on where the page's last line ends.
  - `MetricsSocket`.  `OwnersFit`: a socket in use is the one its page holds, and that page is mounted and has no timer set; what closes is
    left over from a page that is gone.
  - `AlertBadge`.  `BellFits`: identifiers and seconds grow together, and the last answer holds every alert that is open and no younger than one
    announced.  A longer answer therefore begins with an alert nobody has announced.
* `PanelProofs`, the logs and the composition.
  - `AuditQuery`.  `WalkFits`: what existed at the start has been given, or is on the page in hand, or lies beyond the pages read (`Beyond`); an
    inserted row moves the others back and never forward.
  - `LogTail`.  `PipeInOrder`: what is in the channel comes before what the reader holds and after what the handler holds; `NothingLost`: as
    long as the browser is there, delivered and under way are together all that was scanned.
  - `LogRead`.  The last n lines grow with n, and what filters after the counting only takes away from them.
  - `MCPanel`.  A step of the panel is a step of one part and leaves the variables of the others alone (`OnePartMoves`), so every behaviour of
    the panel is one of each part (`PartsRun`), and what is proved of the parts alone is proved of the panel.

They rest on the named assumptions of the modules, which every run evaluates.  One of them says more than what kind of thing a constant
is: `SystemAssumption` takes it from the instance that `partToInt`, a fold over digits, gives numbers and that the comparison is right for
any two releases in the order of the log.  The lemmas `NewerOneWay` and `NewerIsLater` show that it is then wrong for no two in any order.

Only model-checked: liveness (`CatchesUp`, `GoroutinesEnd`, `LeaverReleased`, `SignalEnds`), since fairness speaks of `ENABLED`, which TLAPS
does not reach; what `partToInt` computes, which takes an induction over digits; and the runs that end in a violation, `SetupWizard`
among them, whose traces are what they have to say.

## Not modelled

* Password hashing, TOTP codes, certificates and signatures: cryptography, taken to be perfect where it is used.
* Configuration and logging: read or written once, without state.
* What only reads: listing users, units, processes, alerts that are over, the audit export (the first page of `AuditQuery` in another
  format), certificate details.
* Parsing of `/proc`, `systemctl` and log lines; the network rates of the collector, computed like those of disks.
* The login pages: the server's side of the two steps is `Login`, and what the pages keep of it is the token store of `MetricsSocket`.
* The kill of a process beyond its PIM check: the monitoring page has the same uncleared timeout as the services page, and a pid is not tied to
  the process that was shown.

## Plan

1. *Modelling.*  The network part of the collector with interfaces that come and go.  The handlers around `Sessions` (listing, logout as the user
   interface calls it, without a token).
2. *Proofs.*  What the violated runs leave standing: which alerts an `alert_crosstalk` can resolve, and how far the wizard gets.  An
   abstract stream that `LogTail` implements, as `WsHub` implements `BoundedHistory`.
