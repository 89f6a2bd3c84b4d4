# A specification of ModelHarbor

TLA+ modules, model-checking configurations and machine-checked proofs for the
part of ModelHarbor that exists as code: a desktop process that finds, starts,
restarts and stops a gateway process, the framed IPC between them, the gateway's
SQLite database with its migrations, transactions, repositories and backups, and the
desktop's closing and exiting.
The HTTP gateway, routing, accounts, health checks, imports and statistics are
designed in `docs/` but not yet written, so nothing here is about them.

Line numbers are those of the sources beside this directory; `PROJECT.json` maps
each definition to its lines.

## 1. The system

| part | state | operations | talks to |
|---|---|---|---|
| `GatewayController` (`application/`) | state shown, `QProcess`, `QLocalSocket`, three timers, four flags, receive buffer | `start`, `ping`, `restart`, `shutdownAndWait`, the handlers of timers, process and socket | spawns a gateway, sends `subscribe_status`, `ping`, `shutdown`; signals to the window |
| gateway process (`gateway/main.cpp`) | database handle, local server, a buffer per connection | open and migrate, listen, answer frames, quit 25 ms after `shutdown` | desktops over the socket, the database |
| IPC (`ipc/`) | none of its own | `framePayload`, `takeFrame`, `decodeMessage`, the encoders, the name of the endpoint | both ends |
| migrations (`persistence/migration.*`) | `schema_migrations`, `PRAGMA user_version`, the schema | `apply`, `currentVersion`, `loadMigrations` | SQLite |
| database (`persistence/sqlite_database.*`) | the connection | `open`, statements, `Transaction`, `backupTo` | SQLite |
| repositories (`persistence/*_repository.*`) | rows of `sites` and `app_settings` | one SQL statement each | database; no process uses them yet |
| window and tray (`desktop/`) | window, prompt, tray icon, `forceExit_` | close, hide, show, exit, ping, restart | controller |
| test support (`tests/support/`) | fake upstream's threads, virtual clock | | tests only |

How they interact. The window calls the controller and listens to its signals. The
controller is one event loop, except in `shutdownAndWait()`, which blocks the loop
and runs only the handlers that its waits deliver. It may be connected to a gateway
that is *not* its child: the child of another desktop, one started by hand, or one
left by a desktop that crashed. All gateways of a user share one endpoint name and
one database file, and every one of them migrates that file *before* it finds out
whether the name is free.

What is hard in it, and what each part has to guarantee:

* **Controller.** Four call sites spawn; `finished` and `disconnected` of a restart
  come in either order; timers, and answers to requests, outlive what they were
  started for; connection and child may be different gateways. Correct means: it
  never loses or doubles its child, shows a state that is true, always has a way
  forward, and a shutdown is complete and final.
* **IPC.** A byte stream is cut anywhere, the sender's and receiver's limits may
  differ, and nothing resynchronises. Correct means: messages whole, once, in order.
* **Migration.** Several processes, several statements, only some of them inside
  a transaction, crashes and power loss anywhere. Correct means: rows, version and
  schema agree in every state that may survive, and who serves has its schema.
* **Transactions and repositories.** Statements, BEGIN and COMMIT fail, SQLite
  rolls back by itself, scopes are left by exceptions, callers nest, other connections
  commit between a read and a write. Correct means: what was acknowledged is committed
  whole, nothing else is, no lock stays behind, and no row refers to a site that is not
  there.
* **Backup.** The database changes while it is copied. Correct means: the
  destination is always one whole commit, whatever fails, and the call ends.
* **Desktop.** A modal prompt runs an event loop of its own inside a handler, and
  the tray comes and goes. Correct means: the gateway serves until an exit, and an
  exit ends and leaves no gateway.

The full list of hazards, with lines and the properties aimed at them, is
`hazards` in `PROJECT.json`.

## 2. The modules

```
IpcMessages <- GatewayServer <- GatewayController  <-  GatewayProperties  <-  MCGateway
                                                      |       <-  GatewayProofs <- ServiceProofs
                                       (implements) GatewayService  <-  Desktop <- DesktopProperties <- MCDesktop
                                                                                       |     <- DesktopProofs
Migration  <-  MigrationProperties  <-  MCMigration       (implements) VersionedStore
                     |     <-  MigrationProofs
IpcFraming <-  IpcProperties        <-  MCIpc             (implements) Channel
                     |     <-  IpcProofs
Tables <- Connections <- Database <- DatabaseProperties <- MCDatabase
                            |                     |     <- DatabaseProofs <- AtomicityProofs
                  (composes) Backup      (implements) AtomicStore
```

Definitions under a comment *"A bug: ..."* (`SpawnUnowned`, `BeginDeferred`, ...) are
mutated forms of the definition that follows. No specification uses them; they
are there to show, by putting one in the place of the original, that the properties
can fail.

### GatewayServer

The gateways, as many as there are identities in `Gateways`, and one connection.
`gw[g]` says how far the process has come; `toGw` and `toCtl` are what has been
written on the desktop's connection and not yet been read. `HandleRequest` is
`processAvailableFrames()` for one request. A frame is what `processIncoming()`
tells apart: an answer, an event, one that is refused, or one that is no frame; which
it is, is computed from the message with `IpcMessages`. A gateway whose `compat` is
FALSE has another protocol version, so that it refuses all requests, `shutdown`
included, and what it answers is refused in turn.

### IpcMessages

The encoders, `decodeMessage()`, what the gateway replies to a method and what the
controller takes a message for. A message is a record of the fields that either end
looks at. Neither end matches an answer with its request, so an id is only there or
not.

### GatewayController

One action per call of the interface, timer, process signal and socket signal, with
everything Qt runs inside it. `connectToServer()` on a local socket succeeds or
fails before it returns, so `ConnectToGateway` contains the `connected` handler
(`Attach`) or the error handler (`NobodyListens`); `abort()` contains `disconnected`.
`shutdownAndWait()` is the actions `ShutdownBegins`, `ShutdownFlushed`, `ShutdownKills`
and `ShutdownReturns`, told apart by `call`; while `call` is not `none` only the
notifications that the current wait delivers are enabled.

| variable | code |
|---|---|
| `state` | `state_` |
| `proc`, `child` | `gatewayProcess_.state()`, and which process that is |
| `sock` | `socket_`: whom it is connected to |
| `reconnectT`, `spawnT`, `stopT` | the timers' `isActive()` |
| `owns`, `spawnAttempted`, `restartPending`, `shuttingDown` | the members of that name |
| `call`, `result` | position in, and last value of, `shutdownAndWait()` |

Nondeterminism stands for what the code does not decide: a timer may fire at any
moment while it is active, a wait may time out, a killed or closing peer may lose what
was under way, `terminate()` may have no effect (on Windows a console program
does not see it), and the process' report of its start may be late (`lateStart`) as on
Unix, or part of `start()` as on Windows.

### GatewayService and Desktop

`GatewayService` is what the window may assume of the controller: three modes, and
whether anything is there. `GatewayProperties!ServiceRefined` checks that the
controller implements it; `Desktop` is built on its actions instead of the
controller's. The prompt's event loop is a state in which tray and controller go
on. `icon` is what `setupTray()` decided once, `tray` whether the system has one, which may
change at any time: a tray that starts late leaves the two apart.

### Migration and VersionedStore

`apply()` statement by statement, for any number of processes. A committed state
has the rows of `schema_migrations`, the version, and the list of scripts run on it, which
is what the rows should say. `wal` is the sequence of commits that may still be lost
(`synchronous = NORMAL`); the write lock is held from BEGIN IMMEDIATE to COMMIT or rollback.
A release is the sequence of its scripts; a script whose content was changed is
another script, which is all that the checksum is for.

### IpcFraming and Channel

Headers are four digits of base `Base`, so that carries and limits are exercised by
payloads of a few bytes. `ReadAll` takes any nonempty prefix of what is in the pipe.
`senderLimit`, chosen for each connection, and `MaxPayload` are the two sides'
limits, equal within one release.

### Tables, Connections and AtomicStore

`Tables` says what one SQL statement of the repositories does to the contents of a
database and what it returns: the ids that SQLite gives, the CHECK of `sites`, the
foreign keys RESTRICT (`channels.site_id`) and SET NULL (`credentials.site_id`), which
depend on the pragma that `open()` sets. The rows of `channels` and `credentials`,
which no code writes yet, are inserted as the tests do.

`Connections` has several clients with a connection each. `scope[c]` is the
`Transaction` object (`unwinding` while an exception passes through its scope), `tx[c]`
the transaction that SQLite has on that connection: the two come apart when a
statement fails and SQLite rolls back by itself, and that is where the class can be
wrong. Every `execute` and `step` may throw, with or without a rollback; a
process may end anywhere. A deferred transaction takes its snapshot with its first
statement and may write only while that is the last commit.

`AtomicStore` is what callers may rely on (`docs/DATABASE_SCHEMA.md`, section 5): single
calls and units that are done at once when `commit()` returns. `StoreAtomic` maps
`tx` to units; what a call returned is part of the mapping, so that a wrong answer is
a violation as much as a wrong row.

### Database and Backup

`Backup` is `backupTo()`: one action per step of the copy, every failure and a crash at
every step. It throws in four places: where the file is not opened (nothing is removed
there), and where the copy does not begin (`InitFails`), does not succeed (`CopyThrows`) or
is not renamed (`ReplaceThrows`); each of the last three tries to remove the temporary file, and what
`remove()` says is ignored, so that the file may stay (`Cleanup`). A database is the number of a commit. `Database` composes it with
`Connections`: its `source` is the commit that the *caller's own* connection finds
(`Copy(c) == INSTANCE Backup WITH source <- Finds(c)`). A copy step begins again if
somebody has committed since the last; a busy step is counted. Inside a transaction of
its own that writes, the caller finds the database busy at each attempt.

## 3. What is checked

| run | instance | shows |
|---|---|---|
| `GatewaySafety` | 3 gateways, every fault but `lateStart` | `ChildOwned`, `StateHonest`, `ShutdownLeavesNothing`, `RecoveryArmed`, `RestartPursued`, `StoppedIsDisarmed`, `ReadyIsCompatible`, `ShutdownIsFinal`, `ChildrenOneByOne`, and the refinement `ServiceRefined` |
| `GatewayLive` | 2 gateways, foreign gateways, desktop crashes, late starts, fair | `SettlesServed`, `SettlesReady`, and `ShutdownIsFinal` where `started` comes inside the waits |
| `DesktopShell` | a tray that comes and goes, sessions that end and begin, fair | `ServiceKept`, `ExitCompletes` |
| `MigrationStore` | 3 processes of 3 diverging releases, all failures, fair | `StoreConsistent`, `ServesOwnSchema`, `StoreRefined`, `OnlyPowerTakesBack`, `Migrates` |
| `Framing` | base 2, 3 messages, the sender's limit the receiver's or above it, fair | `Aligned`, `NeverInvalid`, `ChannelRefined`, `Delivered` |
| `DatabaseUse` | 2 clients, 4 workloads, 2 chunks, 1 busy attempt, fair | `NoTransactionLeft`, `ReferencesHold`, `DestinationWhole`, the refinement `StoreAtomic`, `CallEnds`, `LockReleased` |

Runs that fail, each because the code does not do what a document or a test says:

| run | the code | the text |
|---|---|---|
| `GatewayRestartKills` | a restart of a gateway that is not the child leaves `stopTimer_` running, and it kills the replacement, after which nothing is started | `main_window.cpp:126` |
| `GatewayCrash` | after the child crashed `spawnAttempted_` is still set: Connecting for ever | `docs/PRODUCT_SPEC.md:353` |
| `GatewayStaleReady` | an answer to an earlier `ping` shows Ready during a restart | `tests/gateway_controller_integration.cpp:54-58` |
| `DesktopExit` | nothing ends the event loop after an exit | `docs/PRODUCT_SPEC.md:307` |
| `DesktopTrayExit` | the tray's exit during the prompt only arms the next close | `docs/ARCHITECTURE.md:68` |
| `MigrationRace` | a commit of another gateway between two reads is taken for damage | `docs/ARCHITECTURE.md:206` |

`SettlesReady`, `SettlesServed` and `CrashShown` leave out the behaviours in which
the stray timer of `GatewayRestartKills` is running (`[]~StrayStopTimer`), so that they
tell about the rest of the code.

### Bounds, and why they are enough

* **Two gateways** are the smallest number at which connection and child differ,
  which is what all the hard cases of the controller need; `GatewaySafety` has three, so
  that a gateway that is left, one that is connected and one that is spawned can all
  differ: 1.8 million states up to the symmetry of identities. The proofs of section 4 are
  for any number. An identity whose process died is used again, so that any number of
  launches fits in.
* **`MaxInFlight`** (3, in the liveness run 2) stops the *user* from sending more while
  that many frames are unread: `subscribe_status`, `ping` and one request of the
  user. The controller's own requests are not bounded.
* **`lateStart`** is left out where `RestartPursued` is checked: a failed start that is
  reported late leaves `restartPending_` set over the next process. On Windows, the
  product's platform, the report is never late. The liveness run does not leave it out, and
  of the theorems of section 4 only `RestartAlwaysPursued` does.
* **Three releases**, one a prefix of another and one different, with two scripts,
  one of each pair failing when it is run twice: everything `apply()` can find wrong.
* **Base 2** gives headers with carries, and payloads of 0, 1, 4 and 5 bytes are below,
  at and above the limits 4 and 5; one payload looks like a header.
* **Two clients** are what a conflict takes: one that writes between the read and the
  write of the other, or between two chunks of its copy. One of them backs up.
* **Workloads.** All calls at once are too many states, so each behaviour chooses one
  set of calls at its start (`MCDatabase!SomeWorkloads`): sites with what refers to them
  (3 commits: create, refer, remove), the site repository (2), the setting (2), and backups beside
  writers (2). `MaxId = 2` allows one id to be given again and another to stand
  beside it; `Data = {a, Blank}` is a row that is accepted and one that is refused. Calls
  name the first id only.
* **Two chunks** allow a commit between the parts of a copy, `MaxBusy = 1` an attempt
  that is repeated and one that is not; it stands for 500. The commits of a workload
  bound the writers: `CallEnds` is only true if they pause, because each commit makes the
  copy begin again. The theorems of section 4 leave out none of this and are for any number of each.

### Fairness, and why the code justifies it

A running event loop delivers an expired timer, a readable socket and a process
notification: hence weak fairness of each handler, of the gateway's request loop
(which polls every 25 ms besides), of each step of `apply()` in a process that lives,
and of the steps of `shutdownAndWait()`, which all have timeouts. Nothing is assumed of
the user, of other desktops, of faults, of launches, or of a database that is
locked. `Quiet` in the two liveness properties of the controller says that the user
stops and nothing dies of itself from some point on; it is a premise, not fairness.
In `Migration` a lock that is held is released because its holder is fair.
In `Database` a copy takes its next step (weak fairness), and the block that holds a
`Transaction` ends (strong fairness of `Leaves`: it is C++'s scope, whatever is called in it,
and a call may keep it from ending again and again). Nothing is assumed of statements.

## 4. What is proved

`GatewayProofs` holds for every set `Gateways`, every `Faults` and every `MaxInFlight`,
from no assumption but those named in `GatewayServer` and `GatewayController`
(`NoGatewayAssumption`, `FaultsAssumption`, `MaxInFlightAssumption`).

| theorem | |
|---|---|
| `TypeCorrect` | `Spec => []TypeOK` |
| `ControllerCorrect` | `Spec => []ControllerInv`, the inductive invariant |
| `ChildAlwaysOwned`, `StateAlwaysHonest`, `RecoveryAlwaysArmed`, `ShutdownAlwaysComplete` | the invariants of `GatewaySafety` |
| `ShutdownStaysFinal`, `NeverTwoChildren` | its two action properties |

The argument. None of the invariants is inductive alone. That a shutdown leaves
nothing is about the state *after* `shutdownAndWait()`, but what makes it true
happens at its stages: timers and `restartPending_` are cleared when it begins, and
must stay cleared while its waits run `started`, `finished` and `disconnected`;
a wait that returns true has seen the child finish. `ShutdownStages` states this for
each value of `call`. `StateHonest` needs it in turn, because `Stopped` is shown by
handlers that run inside the waits, and needs `ChildOwned`, because the choice
between waiting for the process and for the socket is made on `ownsGateway_`. So
`ControllerInv` is the conjunction of the types, `ChildOwned`, `ShutdownStages`,
`StateHonest` and `RecoveryArmed`; the proof that it is kept has a case for each action of `Next`.
The two action properties follow from it step by step.

`DatabaseProofs` and `AtomicityProofs` hold for every set of clients, every `Data`, `MaxId`,
workload, `Chunks` and `MaxBusy`, from `MaxIdAssumption` and the like: that there is a client,
that the calls are calls, and that the markers (`NoRow`, `Torn`, ...) are none of the values.

| theorem | |
|---|---|
| `DatabaseCorrect` | `DatabaseSpec => []DatabaseInv`, the inductive invariant |
| `DatabaseTypeCorrect`, `NeverTransactionLeft`, `ReferencesAlwaysHold`, `DestinationAlwaysWhole` | the invariants of `DatabaseUse` |
| `ConnectionsAtomic` | `DatabaseSpec => StoreAtomic`, its refinement |

The argument. `EffectSound` shows, statement by statement, that each leaves a database, keeps
references where they held, and changes nothing if it wrote nothing. `ClientInv` adds to
the properties what makes commits serial: there is one writer and it has the last commit
(`WriterIsLast`), and a reader whose snapshot is the last commit sees exactly it
(`LastCommitSeen`), which is what lets a deferred transaction begin to write. `CopyInv` says for each
stage of a backup which commit it can have; `CopyUndisturbed` shows that nothing a client does
breaks that, because commits are only added and the caller itself waits. The
refinement takes `ClientInv` and shows for each action the action of `AtomicStore` that it is:
a statement extends the client's unit (`MineIsUnit`), and no other unit changes since only
a writer commits (`OthersUnits`). Steps of a backup are stutters.

`ServiceProofs` continues `GatewayProofs`, from the same assumptions.

| theorem | |
|---|---|
| `ControllerIsTheService` | `Spec => ServiceRefined`, the refinement that `Desktop` relies on |
| `StoppedAlwaysDisarmed` | `Spec => []StoppedIsDisarmed` |
| `ReadyAlwaysCompatible` | `Spec => []ReadyIsCompatible` |
| `RestartAlwaysPursued` | `Spec => []RestartPursued`, if `"lateStart"` is not in `Faults` |

The argument. `ServiceSteps` lists, on the mode and presence that the window sees, what a step
of the service may do, and each action of the controller is shown to be one of them; that a
shutdown returns `stopped` only when nothing is there takes `ShutdownStages`. Where Stopped
is shown, whoever shows it has dealt with `restartPending_` and the timer that kills: `finished` stops the
timer and takes the restart up first, and `shutdownAndWait()` clears both before its waits
(`ShutdownStages`). Ready needs more than the answer that showed it, because what is shown stays while
connections come and go: `AnswersRefused` says that a gateway of another version has sent nothing
but what is refused, over every connection, and that is kept because it refuses every request, `shutdown`
included, and its event is of its own version. `RestartPursued` is only about the moments between calls, so it is
not inductive: `RestartInv` says of every moment what a pending restart waits for (never a
process that starts; the one that runs until it is dead; otherwise the gateway at the other
end) and that no connection leads to a gateway that is still booting, since such a one
has no socket to be asked on. The proof uses the premise at one place: where no report is
late, `restart()` finds no process whose start is not yet decided.

`MigrationProofs` holds for every set of gateways, every release (a sequence of scripts each),
every `Rerunnable` and every `Faults`, from the assumptions named in `Migration`.

| theorem | |
|---|---|
| `MigrationCorrect` | `Spec => []MigrationInv`, the inductive invariant |
| `MigrationTypeCorrect`, `StoreAlwaysConsistent`, `AlwaysServesOwnSchema` | the invariants of `MigrationStore` |
| `MigratesAsPromised` | `Spec => StoreRefined` |
| `MigrationsStay` | its action property |

The argument. A commit is right because the transaction began on the last commit and nobody
has committed since: `WriterInv` (one writer, and only it is inside a transaction) and `WorkInv`
(what the work copy is at each step, compared with the last commit). The row that is inserted
belongs to the next version because `next` was computed from rows that were the whole
release up to there (`LoopInv`) and the INSERT fails if another gateway has come first; a
script that ran before and is run again is caught in the same place, which is why `next` is only
known to be the next version once the INSERT succeeded. Power failures need two more
parts: each commit that may be left is consistent (`StoreConsistent` is about all of `wal`),
and the commits only grow (`WalGrows`), so that losing the last ones is losing migrations
from the end. The refinement is then `Commit` as one step of `VersionedStore`, `PowerLoss` as
another, and stutters.

`DesktopProofs` has no constants and no assumptions; it holds on top of any controller that implements
`GatewayService`.

| theorem | |
|---|---|
| `ShellCorrect` | `Spec => []ShellInv`, the inductive invariant |
| `ShellTypeCorrect`, `ServiceAlwaysKept` | the invariants of `DesktopShell` |

The argument. That an exit that is over has shut the gateway is decided before it is over,
while the window is `exiting` (the second part of `ServiceKept`). The tray could begin a second exit,
or show the window again, once the first is over: it cannot because the icon is gone then
(`IconRemoved`), and a tray that comes back does not bring it back.

`IpcProofs` holds for every base above 1, every set of payloads and limits that a header of
four digits can tell (`LimitsAssumption`; the code's 4 MiB are far below 256^4), and every
`MaxSent`.

| theorem | |
|---|---|
| `FramingCorrect` | `Spec => []FramingInv`, the inductive invariant |
| `FramingTypeCorrect`, `AlwaysAligned`, `NeverRefused` | the invariants of `Framing` |
| `FramingIsAChannel` | `Spec => ChannelRefined` |

The argument. `FourDigits` and `HeaderRead` show that `takeFrame` reads the length that
`framePayload` wrote, for every length below the base's fourth power: the one place where the
masks and shifts of the code matter. `FrameFound` shows that the first four bytes
of a buffer are the first frame's header even when the frame is not there yet, and that a
frame that is there is cut out whole. The invariant adds to `Aligned` that only messages within
the sender's limit are under way (a longer one is no bytes at all), that what was received is
the beginning of what was sent, and that nothing of a connection outlives it. Each send
then appends one frame to the stream (`StreamAppend`), each read moves the cut (`ReadSome`), each
turn of the loop takes the first frame (`StreamHead`).

The stream is `FlattenSeq` of the frames, a recursive function of the library, of which the
proofs need that it exists, and what it does at either end of a sequence. The library's
induction theorems take an operator as a parameter and cannot be used here; its
`WFMin` takes a set. So `LeastElement` is `WFMin` on the natural numbers, and `InductionNat`
and `InductionSeq` are inductions on a *set* of numbers or sequences that is closed
under the step; `FlattenUnfold` and `FlattenCons` follow from them.

Only model-checked: liveness, in every component (properties under fairness are outside what
the proof system handles): `SettlesServed`, `SettlesReady`, `Migrates`, `Delivered`, `CallEnds`,
`LockReleased`, `ExitCompletes`. Every invariant, action property and refinement that a
passing run checks is a theorem.

## 5. What is not modelled

* Time: intervals and timeouts have no length. A property that depends on 350 ms being
  more than 150 ms cannot be stated; every one that is stated holds for all lengths.
* Two servers on one pipe name on Windows: the model lets both listen, and a
  desktop attach to either, which covers it, but not a partial takeover on Unix.
* The destructor's `shutdownAndWait()` after the event loop: the same call.
* Further connections of one gateway, except for the `shutdown` of another desktop.
* JSON, the endpoint's name, `loadMigrations()`, the checksum's arithmetic,
  binding and column access, texts, theme and pages: no state, or no choice in it.
* One connection shared by threads, although it is opened with FULLMUTEX; moving and
  closing the handles; a caller that catches an error inside a `Transaction`'s scope and goes
  on (SQLite may have rolled back, and what follows would commit one by one). No code does any of it.
* A channel's own credential, and more than one setting.
* The fake upstream: threads of the tests, beside the product.
* `-wal` files beside an old backup destination, temporary files that a crash, or a removal that
  failed, has left: nothing in the code looks at them.

Two facts that the model shows, no run checks, and a document does not agree with:

* A tray that starts after the desktop lets the window hide without an icon, because the icon
  is only shown by `setupTray()` (`main_window.cpp:253`) while the prompt asks again (203).
  `docs/PRODUCT_SPEC.md:304` says that the icon stays.
* The early return of `shutdownAndWait()` (`gateway_controller.cpp:142-145`) stops no timer and does not set
  `shuttingDown_`. The reconnect timer goes on, and the controller may connect to a gateway that
  appears later. So does the spawn timer: after `restart()` of a connected child, `start()`, which
  is let through while Restarting is shown and clears `spawnAttempted_`, and the child's exit,
  which shows Stopped, `shutdownAndWait()` returns true and the timer starts a process.
  `docs/ARCHITECTURE.md:65` says that a normal exit leaves no gateway behind. It takes a second call of
  `start()`; the window makes only one, at its own start (`main_window.cpp:183`). What can be relied on
  is `StoppedIsDisarmed`: no restart is pending there and nothing is about to be killed.

Facts the model shows and that no text forbids: `start()` on a standing connection
shows Connecting until the next frame; a late `started` does the same; a gateway of
another protocol version holds a restart up; a gateway of a newer release gives up
when it loses the race for the database to an older one (so `Migrates` needs it to be
launched again); a migration runs before the name is taken, so that a newer gateway
changes the database under an older one that serves; a backup inside the caller's own
write transaction is busy until its attempts are used up, and the lock is held as long;
inside a deferred transaction that has read, it copies that snapshot, not the
last commit; the id of a removed site is given to the next one, so that an id kept from
an earlier call may by then be another site's.

## 6. Plan

Done, in this order, most important first: gateway and controller; their proofs;
migration; framing; desktop; backup; messages; tables, connections and their
composition with backups; the proofs of that composition; the proofs of migration,
of the desktop, of the controller as a service, and of framing.

Next:

1. Lemmas about `IpcMessages`: what either end replies to, refuses or ignores, for
   all messages and every pair of versions, and with them `GatewayServer`'s frames.
2. What the two liveness properties of the controller rest on, as far as it is safety:
   that in each state that is not settled the handler that goes on is enabled.
3. The fake upstream's threads: `stop()` against accepts and workers.
