# Verification of homeESS

TLA+ models of the parts of homeESS in which the order of events decides whether
the program is right, the TLC configurations that check them on small instances,
and proofs of the most important safety properties for every size.

Paths are relative to the directory `src/` of the program (`remote-access/x.js` is
`src/remote-access/x.js` in the repository); documents such as `MQTT.md` lie in
the root of the repository.

## 1. The system

homeESS is a home energy management server: one Node.js process with an SQLite
database, plus one child process per adapter instance. All code of the main
process runs on one event loop. Two handlers never run at the same time, so what
interleaves is everything that an `await`, a timer, a socket event or an IPC
message separates, and this is the grain of every model here: **an action is the
code between two points at which the program yields**. Timers are steps that may
happen while the timer is armed; control loops that compare ages with delays have
a step in which time passes.

### 1.1 Components

| Component | State | Operations | Talks to | What makes it right |
|---|---|---|---|---|
| Relay connection `remote-access/relay-connection.js` | connection state, generation, three timers, back-off, rejected handshakes, seen challenges, open pushes and removals | start, reconnect, disconnect, shutdown; open, message, error, close of the socket; every relay message | relay (WebSocket), identity store, origin tunnel, device links | always supervised by a timer; one connection; no request outlives its session; silent while stopped |
| Origin tunnel `remote-access/origin-tunnel.js` | Map of contexts, two timers per context, exchange with the local server | start, body, end, cancel of a request; response, data, end, error of the local server; abortAll | relay connection, local HTTP server | well-formed streams, nothing after the end, every request ends |
| Pairing `remote-access/pairing-state.js` | one session per owner, a lock, a retry timer | create, poll, cancel, reject, confirm, provision, sign-out; retry, sweep | relay (HTTPS), identity store | shown as paired only when stored, stored only when the relay has paired it; over stays over; every session ends |
| Device links `remote-access/device-status.js`, `identity-store.js` | revision of the linked devices | apply revision, link and unlink | relay connection | no older revision over a newer one |
| State bus `state-bus.js`, MQTT client `mqtt/client.js` | last value per key; definitions, routes, subscriptions, connect epoch | ingest, subscribe; connect, reconnect, subscribe ad hoc, publish | broker, all consumers | every consumer has the value of the broker |
| Adapter host `adapters/host.js` | entries of instances, children, restart timers, subscriptions | start, stop, reload, crash, restart, messages of children | child processes (IPC), MQTT client, bus | one supervised process per active instance |
| Audio bus `audio-bus/bus.js`, `ws-server.js` | sessions, plugin clients with bounded queues, output streams, connections | accept, start, frames, end; subscribe, drain, output; shutdown | WebSocket clients, speech, adapters | bounds, losses counted, order, one owner per stream |
| Conditions `conditions/engine.js` | conditions, armed triggers, running lock, executions per minute, last branch | reload, values, evaluation, checked loops | bus, MQTT client, action runner | one branch at a time; reloads lose nothing |
| Actions `automation/action-runner.js` | tokens, busy keys and loops | run, rerun a loop, cancel | MQTT client; used by conditions, home cinema, heating | the newest run of a key wins |
| Notifications `notifications/engine.js` | rules, previous values, time marks | reload, values, fire | bus, push service | every push answers an edge; cool-down |
| Home cinema `heimkino/runtime.js` | rooms and lists in memory, loops | switch, reload, tick | database, action runner | database, memory, published state and device agree |
| Grid control `grid-control/automation.js` | windows, delayed load, emergency mode, command tracks | tick, reconciliation | MQTT client, database | the contactor follows the readings; no cycling; emergency mode held |
| Load shed `grid-control/load-shed.js` | providers, stage per phase | register, update, shouldShed | grid control, consumers | stages in order and after their pauses |
| Operating state and level `operating-state.js`, `operating-level/handler.js` | level and mode | set level, notify | all consumers | what is barred is off |
| Measuring and switching `messen-schalten/automation.js` | pending switch and remote commands per device | tick, manual and remote switching | MQTT client, load shed, level | barred devices go off, wanted ones come back |
| Pool `pool/automation.js` | pumps, samples, hold times | tick, manual switching | as above | as above |
| Output engine, wallbox, heating, shutters, battery | control loops over measurements | tick, reload, write | bus, MQTT client | per module |
| Forecasts, statistics, history | aggregates | arithmetic, SQL | database | numerical |
| Web pages, routes, sessions, access, update, logging, speech, adapters | requests, files, device protocols | handlers | all | - |

`PROJECT.json` lists every component with its files and what of it is not
modelled; its `hazards` list names what is hard to test, at the line where it
bites.

### 1.2 What is hard

- **Generations.** Sockets, processes, runs and requests are replaced while
  events of their predecessors are still on the way (relay sockets, adapter
  children, tokens of the action runner, reused request ids).
- **State used after an await.** `reloadInstance`, `applyRoomState`, the grid
  tick, the pairing calls, `reload` of several engines read something, wait, and
  act on what they read.
- **Several records of one fact** that different operations reset: subscribed
  topics, routes and cache of the MQTT client; entry and session of a pairing.
- **Timers left armed** by an operation that took another path.
- **Commands without an answer.** MQTT confirms nothing: a command is repeated
  until the status topic agrees, and lost commands, old retained values and a
  user at the device look alike.
- **Several masters of one device**: user, remote topic, schedule, level, load
  shed, emergency mode.
- **Bounded queues and slow consumers**, answers matched by order.
- **Processes outside**: crash, hang, late exit events, and restarts of homeESS
  between two database writes.

## 2. Modules

| Module | Models | Role |
|---|---|---|
| `RelayConnection` | `remote-access/relay-connection.js` | detailed state machine |
| `RelaySession` | what `relay-connection.js` promises the application | abstract specification |
| `RelayConnection_proofs` | | theorems about it, the refinement of `RelaySession` among them |
| `RequestStreams` | what `origin-tunnel.js` promises | abstract specification |
| `OriginTunnel` | `remote-access/origin-tunnel.js` | implements `RequestStreams` |
| `Pairing` | `remote-access/pairing-state.js` | sessions of one owner and the relay |
| `RemoteAccess_proofs` | | theorems about the pairing and the tunnel, the refinement of `RequestStreams` among them |
| `AudioBus`, `MCAudioBus` | `audio-bus/bus.js`, `audio-bus/ws-server.js` | sessions, queues, outputs |
| `AudioBus_proofs` | | theorems about it |
| `AdapterHost` | `adapters/host.js`, the calls of `routes/adapters.js` | processes of instances |
| `AdapterHost_proofs` | | theorems about it |
| `ActionRunner` | `automation/action-runner.js` | sequences under a key; extended by its users |
| `Heimkino` | `heimkino/runtime.js`, reads and writes of `heimkino/rooms.js` | composes a room with the action runner |
| `Heimkino_proofs` | | theorems about both |
| `ValueBus` | `mqtt/client.js`, `state-bus.js` | broker, connection, subscriptions, cache |
| `Conditions` | `conditions/engine.js` | a condition over `ActionRunner` and `ValueBus` |
| `Notifications` | `notifications/engine.js` | a rule over `ValueBus` |
| `Automation`, `MCAutomation` | | composes the two engines on one bus |
| `Automation_proofs` | | theorems about the two engines |
| `GridControl`, `MCGridControl` | `grid-control/automation.js`, emergency mode of `operating-state.js` | tick, restart, contactor and house |
| `GridControl_proofs` | | theorems about it |
| `Outlets` | devices behind topics, `publish` of `mqtt/client.js` | environment of the consumers |
| `LoadShed` | `grid-control/load-shed.js` | stages per phase |
| `OperatingLevel` | `operating-level/handler.js`, `setOperatingLevel` | the level and its listeners |
| `Actors` | `messen-schalten/automation.js` | switched devices |
| `Pool` | `pool/automation.js` | two pumps |
| `LoadManagement`, `MCLoadManagement` | | composes the five modules before |
| `LoadManagement_proofs` | | theorems about the composition |

A configuration `X.cfg` names the constants of one run. `MC...` modules hold the
definitions those constants are given. In every module the `Max...` constants are
bounds of TLC's search and of nothing in the code unless the comment beside them
says so. Two forms of bound appear in the composed modules: `Limits` is a set of
records, one of which is chosen in the initial state, so that one run covers
several small scenarios (who may act how often, which device exists) instead of
one large one; `MaxSpread` in `RelayConnection` and `OriginTunnel` bounds how many
unusual events a behaviour holds altogether. `CHECK_DEADLOCK FALSE` is set
everywhere: when the bounds are used up the behaviour ends, and a server whose
peers are silent may rest. Operators marked `Mutant:` are deliberate bugs; no
specification uses them. They document which mistake each property notices.

Every module has a type invariant. The runs `relay`, `audio_bus` and
`load_management` check theirs; those of `OriginTunnel`, `Pairing`, `AdapterHost`,
`Automation`, `Heimkino` and `GridControl` hold in the instances of their runs and
were left out of them (those of `Heimkino` and `GridControl` are proved).

### RelayConnection and RelaySession

`state`, `stopped`, `generation`, `ws`, the timers, `backoffIndex`,
`authFailures`, `pendingPushes`, `pendingRemovals` are the fields of the class;
`sockets` is the network's view of every socket ever opened, named by the
generation that opened it. One action per public call, per socket event, per
relay message type and per timer. `connect()` is one action because the identity
store reads its files and signs synchronously and the promises around it are
settled in the microtask queue; only frames that arrived in the same chunk as
the challenge can be handled before its signature is used, and `signing`
represents that window. The relay answers what it was sent, once, as late as it
likes or never. A message that `sendJson()` drops silently leaves its promise to
its timeout.

`RelaySession` is the same seen from the application: there is a session or there is
none, a request without one is refused, a request in one is settled once or fails
with it, and a stopped service has no session before it is started. Handshake,
back-off, timers and sockets are not in it. `ServesSessions` is `Sessions!Spec`
under the substitution at the end of `RelayConnection`.

### RequestStreams and OriginTunnel

`RequestStreams` says what the relay may rely on: an answer is a head, numbered
parts without a gap and at most one end, perhaps cut off by a cancellation or by
silence, and nothing after that; no request outlives its connection.
`OriginTunnel` is the code: contexts are numbered in the order of their creation,
`contexts` is the Map from request ids to live ones. A context that ended keeps
its listeners on the local request, so late events of an ended context are
actions too. A body is counted in chunks, and one data event of the local server
may be cut into several messages between which the send buffer overflows. What the
header fields say is one nondeterministic outcome: a status or a length out of
bounds cancels the request (`LocalResponse`); fields `validateHeaders` refuses throw
out of the callback of the local response (`origin-tunnel.js:223`), nobody catches
it, and the process ends with every context and comes back with an empty Map
(`HeadersRefused`). `KeepsPromise` is
`Streams!Spec` under the substitution at the end of `OriginTunnel`. (Its `Init`,
`Next`, `Spec`, `TypeOK` carry the prefix `Tunnel`, so that one module can hold
theorems about the tunnel and the pairing.) The tunnel
and `RelayConnection` meet in `Authenticated`, `Closing` and `ConnectionLost`.

### Pairing

One owner, that is one login session. Entry `n` of this process and session `n` of
the relay belong together; `op` is the call that holds the lock of the owner, with
the request it waits for, the token it sent and the answer; `queue` holds the calls
behind it, the retries of the provisioning among them. `sweepAll` runs beside the
lock, which the code does too. A request or its answer may be lost, in which case
the relay may or may not have carried it out. `late` is the clock of this process,
the status `expired` in `relay` that of the relay: the two need not agree. A
session whose creation was not answered is known to nobody here and left out. The
page polls again and again while the user is waited for (`views/remote-access.js`).

### AudioBus

`client[c]` is the object `bus.createClient` returns with its queue, its gap counters,
its handlers and the drain loop. What the bus does with such an object are operators
on one record (`EnqueueFrame`, `EnqueueEvents`, `Shifted`, `Delivered`, `Forget`),
which `broadcast` applies to all of them. `drain` runs up to its next await in one
step: an event nobody has a handler for is skipped, the first other one is delivered,
and with none left the loop ends. `conn[k]` is the state the WebSocket server keeps
per connection. Handlers answer or time out, both are `HandlerSettled`. `endSession`
and `shutdown` delete the gap counters of the session as they are (`Forget`). `heard`,
`whole` and `forgotten` (what those counters held) are history variables for the order
and gap properties. The limit on sessions is one of `limit` for a whole behaviour; the
page can change it (`setMaxSessions`), which ends no session.

### AdapterHost

An entry is made by every start and holds at most one child; `running` is the
Map. `db` is the row of the instance: activated, not, or deleted. `stopInstance` is
split where it waits: for the exit event, for the kill timeout, and before the
continuation of its caller (`then`: a reload starts the instance again, a deletion
removes the row, a deactivation does nothing). Calls overlap freely, for one instance
too, and the exit event after SIGKILL is as late as it likes; the code prevents neither
and the model assumes neither away. `startInstance` gives up when the manifest of
the adapter is missing, and puts its entry into the Map whatever is there. A fork
that fails emits `error` and never `exit` (`"failed"`): the entry then looks as if it
ran, and a stop ends with the kill timeout. Two history variables say what the
properties except: `refused` (the last start since the activation found no manifest)
and `clashed` (the instance was started beside a process of its own, by overlapping
calls or before a killed process had exited, and has not come to rest since).

### ActionRunner and Heimkino

A list of actions is a sequence of writes with pauses between them: the only
points where the runner yields. `runs` holds the paused runs with their token;
`runTokens`, `busyKeys`, `busyLoops` are the three collections of the code. A
write reaches the device, is lost behind `publish()`, or is refused by it. All
lists of a room switch one device, and `target` is the list whose state it has,
which is also what the check of a loop looks at. `Heimkino` splits
`applyRoomState` at its two database calls and `reload` at its two; requests,
reloads, pauses, loop checks and a restart of the process interleave freely. The
room has no Sync topic.

### ValueBus, Conditions, Notifications, Automation

`ValueBus` is one value of the broker and its way to the consumers: what the
broker holds, the messages on the wire, the connection, and the three records the
client keeps of a subscription (`subscribed`, `routes`, `cache`). A radio topic
(`Radio`) is not asked for its value, others are. `Conditions` runs over the same
`ActionRunner` as the home cinema: a trigger, a check, two lists, the queue that
is flushed once per turn, the limit of executions, the checked loops, and
`reload()` split at its database call and its pause. `Notifications` has one rule
with its baseline, its cool-down in memory and in the database, and its own
reloads. `Automation` composes both on one bus; its actions say who hears a value
and in which order.

### GridControl

One tick is split where the code awaits the database (`tick.at`): what was read
before, what the transition of the emergency mode stores, what is published after.
`input` is the house, `cache` what the process believes, `wire` what is on its way,
`disk` what survives a restart. A reading is one of five levels around the two
thresholds of its window, an age is counted up to the longest delay it is compared
with. `track` holds the reconciliation of a switch: how long the wish stands, what
was seen, the attempts and the warning to the user. Ticks take no time; a step of
time lies between them.

### LoadShed, OperatingLevel, Actors, Pool, Outlets, LoadManagement

`Outlets` is the world behind a topic: a command on its way, the device, the state
topic, a hand at the device. `Actors` and `Pool` are two controllers with ticks of
their own that register with the same `LoadShed` and obey the same
`OperatingLevel`; `LoadManagement` gives each its timer (`fired`), lets time pass,
and lets users, weather, loads and the level change. A user who asks the level to
change only queues the listeners, which run after the save (`LevelSaved`). A pass of the
pool in which the solar pump is automatic waits for the database between its checks
of mode and water and its decisions (`pool/automation.js:212-213`): `TickPool` is the
pass up to there, or to its end when it does not wait, and `ResumePool` the rest.
`tick` holds what the pass has found of the load shed before; mode buttons, levels,
loads, outlets and the other controller act in between. The
pause before a command is repeated doubles with each attempt (`Backoff`, a recursive
function) up to `RetryMax`.

## 3. Runs

| Run | Question | Bounds, and why they are enough |
|---|---|---|
| `relay` | Is the client always supervised, on one connection, silent while stopped, each promise settled once, does it implement `RelaySession`, and does it keep trying? | four attempts: first, replaced by reconnect, lost and retried, given up after two rejections (`MaxAuthFailures = 2`); two pushes, since order matters between two; one step of the back-off, whose length no property looks at; `MaxSpread` excludes only that all four attempts and both pushes occur in one behaviour |
| `origin_tunnel` | Does the tunnel implement `RequestStreams`, are contexts and Map in step, does every request end? | two ids and two contexts, so an id is used again while its former context gets late events; bodies of two chunks reach the limit of the body; two connections, so answers of the first arrive during the second |
| `pairing` | Is a phone shown as paired only when it is stored, and stored only when the relay has paired it, does over stay over, does the provisioning complete, does every session end? | two sessions, so that calls of the first meet the second; three calls in every order beside polls and retries; as many lost answers as retries, so that the last one decides |
| `audio_bus` | Is every loss of a session that goes on counted and told, are events in order, output streams agreed on by owner, session and client? | one queue of length one overflows with every second frame, three frames give a loss before, between and after deliveries, in one session with all its events and in two sessions one after the other; two plugins compete over two connections and three sessions |
| `adapter_host` | Does only a start beside a running process lose one, are subscriptions those of living processes, is what is activated supervised, and does it come up? | one instance, since instances share nothing but the code (the theorems are for any number); two calls that overlap in every way; three starts, so that two entries with a late exit between them meet a third |
| `adapter_reloads` | violation, see 5 | |
| `heimkino` | Does only the newest sequence write, do database, memory and published state agree, does the device settle? | two overlapping requests, sequences of two writes, loops of two passes, one edit, one restart, one failed write: every await and pause is met by every other activity |
| `automation` | Do engines and database agree after edits, does a push answer an edge and respect its cool-down, does every consumer get the value? | seven scenarios (`BusLimits`) in which a lost connection, saved definitions and edits of the condition and the rule meet in pairs; three values and a trigger that is met by two of them, so that a value missed in a reload differs from one repeated |
| `conditions` | One branch at a time, and does the device end in the branch played last? | two changes of the trigger and one edit over lists of two writes with a checked loop of two passes each, one failed write, a limit of one execution |
| `grid_control` | Is the grid not let go too early, does the emergency mode end only on good readings, does the contactor follow? | eleven courses of the house (`SomeLimits`): every pair of window levels, delayed load, phases gone and back, each with a restart, or with a lost connection, command and a foreign switch, or with a dead contactor, or with a slow database; a delay of two steps for the loads separates before, at and after and shows what a delay kept too long in the file does |
| `load_management` | Does what is barred go off, what is wanted come back, do stages open only after their pause and close one priority at a time? | ten small houses (`SomeLimits`): two priorities on a phase, a lost command, two controllers on a phase, level down and up with a hand at the outlet, remote topic, mode buttons at either pump, samples with both pumps, mode buttons while a pass with samples waits for the database, load shed switched off |
| `load_remote` | violation, see 5 | |

Each property was chosen because it takes several steps, mostly of different
actors, to break. Each has a mutant in `PROJECT.json`: a plausible bug in one
mapped operator that makes TLC find it violated.

### Fairness

- `RelayConnection`: due reconnect and authentication timers fire, a signature
  that was started is used. The peer is not fair: it may never answer.
- `OriginTunnel`: the idle timer of a context fires when it stays armed. Nothing
  is assumed of the local server or of the relay.
- `Pairing`: calls get the lock, requests end (each has its own timeout in
  `relay-client.js`), the retry timer and the sweep run, an open page polls.
  Neither time nor the phone nor the user is fair.
- `AdapterHost`: restart and kill timers fire, a process that got SIGKILL exits,
  a resolved promise is continued. A process that was only asked to stop may hang.
- `Heimkino`: database calls return, pauses end, the loop check (every second)
  reaches a loop that stays unfulfilled.
- `Automation`: the same, and the client reconnects, the broker answers what
  reached it, the queue of a turn is flushed.
- `GridControl`: ticks and time go on, a started tick ends, the client
  reconnects, an outlet that is not broken executes and reports.
- `LoadManagement`: each controller ticks, time goes on, a save ends, the database
  answers a pass of the pool (in less than a step of time, which is half a minute:
  `Pass` waits for it), outlets answer to what reaches them.

All are weak fairness on single steps of timers, promises, the kernel or the
transport; no property relies on a user, a peer or an adapter doing something.
Some conjuncts name the effect of an action instead of repeating it
(`WF_gap(gap' = 0)`: the tick that ends a step of time).

### Conditions inside properties

`OnlyTailSilent` speaks of plugins that were subscribed the whole time (`whole`) and
says of a session that ended how many frames were dropped after the last one that
found room (`forgotten`): nobody is told of those, see `EveryLossTold` in section 5;
both `AgreeAtRest` of a room or an engine in which no two requests or reloads
overlapped (`calm`, `ruleCalm`): without that condition they are false, and the
overlaps are hazards of the list. `CoolDownHolds` has the same condition.
`NoFalseAlarm` compares a push with the value before it, except when a reload of the
rules has swallowed that one (`missed`). `NoCycling` measures how long the loads were
low by `calmFor`, a history variable which a restart sets back to what the file has
when the last save of the delay was lost: see the note in section 5. `OverStaysOver`
lets the sweep be undone by the call in whose request it fell, which the code does;
`EndsInTime` says that the end comes all the same. `ProvisioningCompletes` and
`ComesUp` speak of sessions and instances that nobody ends. `NoOrphan` and
`SettledAsConfigured` except an instance that was started beside a process of its own
(`clashed`; that this happens is the finding of `adapter_reloads`),
`SubscriptionsAgree` does so only where it says that a living process keeps what it
asked for; `SettledAsConfigured` and `ComesUp` except one whose last start found no
manifest (`refused`), and for `ComesUp` a failed fork counts as up, as it does for the
host (both in section 5). `Obeys` excepts, of the pumps, a solar pump in automatic
mode in water that is too warm, a filter pump that takes samples for the solar pump,
and one in automatic mode that a sample was left to nobody ends (`SampleLeftBehind`):
the first and the last are `GateHasPrecedence` and `FilterObeys` of section 5.
`PausedRelease` speaks of a stage while a consumer that was taken off waits.

## 4. Proofs

`TLAPS` checks every safety property of the passing runs, for all values of the
constants: any number of sockets, requests, sessions, plugins, instances, edits,
devices, phases and faults, any length of a queue, any delay. A theorem has the form
`Spec => []P` or `Spec => [][A]_vars`, those about `RequestStreams` and `RelaySession`
the form `Spec => AbstractSpec`. Each rests on an inductive invariant, `IInv` in its
module: the initial states satisfy it, every action keeps it (one lemma per action),
and it implies the property or, for an action property, each action does so under it.
The only assumptions are those on the constants (`...Assumption` in the modules, which
TLC evaluates in every run).

### RelayConnection_proofs

`TypeCorrect`, `AlwaysSupervised`, `AtMostOneConnection`, `RequestsEndWithSession`,
`PushesSettledOnce`, `NoAttemptWhileStopped` (`Spec => StoppedStaysDown`) and
`ServesTheSession` (`Spec => ServesSessions`).
`Supervised` and `OneConnection` are not inductive: nothing in them says that a
socket younger than `generation` cannot exist, that an inactive client has no socket
in use, or that the idle timer runs exactly from the open event on. `ConnInv` adds
these; `IInv` adds the types of the rest and `RequestsNeedSession`. The argument goes
handler by handler, with lemmas for what many of them share: `DropConn` (the
socket is dropped and a retry scheduled), `ConnectConn` (the outcomes of
`connect()` from a consistent state). `StoppedStaysDown` follows from the
invariant and a case split: only `connect()` makes a socket `connecting`, and it
returns at once while stopped.

`PushesSettledOnce` needs more, because an acknowledgement carries no number and is
given to the oldest open push. `FifoInv`: the FIFO holds exactly the open pushes in
the order they were sent (`InOrder`); what the relay has to answer, and every answer
taken, was sent on that socket and no later than the push it settles (`SentBefore`);
and the relay has at least as many to answer as the client has open, each no younger
than the entry at its place (`Aligned`). A push that
timed out leaves the FIFO and not the queue of the relay: `Aligned` says "no younger"
and not "the same", and `AckIsOwn` of section 5 is false while this holds.

`ServesTheSession`: the connection implements `RelaySession`. `ServiceInv` adds to
the two invariants that a stopped service has no socket in use and no active state
(so `start()` can only switch it on between sessions) and that a push not sent yet has
no verdict. Most handlers come under one predicate, `Moves`: they may end the session,
with everything in it, but not begin one, nor stop or start the service while it lasts.
`MovesServe` maps such a step to `End`, `Switch` or a stutter; `Authenticated`
and the steps of the requests have lemmas of their own.

### RemoteAccess_proofs: the tunnel

`MapHoldsTheLive` (`[]MapIsLive`) and `TunnelKeepsPromise`: the tunnel implements
`RequestStreams`. `TunnelInv` ties each context that is not over to what the local
server and the relay have seen of it (`Exchange`): nothing sent while it was only
requested, a head and `nextResponse` numbered parts once the answer began, and the
connection it came on is the one in use. Under the mapping (`sent` is the stream,
`Live` is "open") the initial states agree and each action is a step of `Streams!Next`
for one request, `abortAll` and the loss of a connection one for all of them, or a
stutter: the events of a local server whose context is over, the body of the request,
the timers that are set again. The end of the process on headers it refuses is for the
mapping what `abortAll` is: everything open is cut off (`AbortSound`). Its lemmas
compute what one data event adds to a stream when it is cut into several messages of
which a full send buffer lets only the first ones pass (`AnswerParts`, `ChunkParts`).

### RemoteAccess_proofs: the pairing

`PairedMeansStored` (`[]PairedIsStored`) and `OverIsForGood` (`OverStaysOver`).
`PairedIsStored` says nothing of the call under way, so it is not inductive. `IInv`
adds what the lock and the count of attempts give: a session is paired at the
relay only after an attempt to provision it (`Sound`); the calls before that (`Early`)
work on an entry without an attempt and are never told `paired`, the provisioning
(`Later`) on one with an attempt; and the call that goes on to store was told so by
a relay that has the session as paired (`OpSound`). What an entry may become is one
predicate (`Fine`); the lemmas `BecomeKeeps`, `AsksEarly` and `AsksLater` then serve
every handler, and each handler has a lemma of its own. The sweep, which does not
take the lock, is harmless because `paired` at the relay never changes.

`OverStaysOver` rests on the lock: the call under way is about an entry that is not
over, or that only the sweep has ended meanwhile (`OpOpen`); so no step takes an
entry of another call out of a terminal state (`Over`), and the one of the call
itself only out of `expired`, which is what the property allows.

### AudioBus_proofs

`TypesHold` (`[]TypeOK`, with the counters of the queues), `LossesCounted`
(`[]OnlyTailSilent`), `EventsInOrder` (`[]EventOrder`) and `PartiesAgree`
(`[]OutputAgrees`). What concerns a plugin is a predicate on its record and the
sessions (`ClientInv`), so each operator of the model has one lemma whoever calls it
(`FrameKeeps`, `EventsKeep`, `FirstDelivered`, `EmptiedKept`), and a broadcast is that
lemma for every plugin. `ClientInv` holds:

- `Ready`: running handlers and scheduled loops together are one while `draining` and
  none otherwise, which is why a second loop never starts;
- `InOrder`: `EventOrder`, and that no event of a session waits before it began, no
  frame has a number above the session's, and an end waits only when the session is
  over, so that nothing can follow it;
- `Lossless`: for a plugin that has listened from its creation, each frame of a
  session follows the one before it up to `droppedBefore` (`Followed`), and what the
  session sent since the last one is in the gap counter while it goes on, and in
  `forgotten` once it has ended (`Missing`); nothing is forgotten before the end, and a
  gap counter of a session that is not active is zero, so a new one starts from nothing.

The lemmas about queues say what appending and shifting do to the frames of one
session among those of all others (`FrameAccepted`, `FramesShifted`,
`ShiftedInputs`). `BusInv` holds the rest of `OutputAgrees`; the lemma `EndKeeps`, the
end of any set of sessions in any order, serves `endSession` and `shutdown` alike.

### AdapterHost_proofs

`LostOnlyBeside` (`[]NoOrphan`), `SubscriptionsLive` (`[]SubscriptionsAgree`) and
`DatabaseDecides` (`[]SettledAsConfigured`), for calls that overlap in any way and exit
events as late as they like. `IInv` has a part for everything and one for instances
that were not started beside their own process:

- `InMap`, `EntrySound`, `CallSound`: the Map leads to an entry of the instance, routes
  are those of the Map, an entry that is stopping has no timer, and the entry a
  call waits for is stopping and has a child;
- `Awaited`: a process that was told to stop has a call that waits for it, so a
  deactivated instance without a call has none but killed ones;
- `Owned`: a subscription at the client is in the books of an entry, which lose it with
  the exit;
- `Unclashed`: its processes are those of the Map (`Known`), what they subscribed to is
  at the client, and while it is activated it is in the Map, was refused, or has a
  call under way that will start or delete it (`Minded`). The exit of an entry takes only
  that entry out of the Map, because there is no other process; this is what fails after
  a clash, and why the exception cannot be dropped.

### Heimkino_proofs

`TypeCorrect`, `BusyIsOneRun` (`[]BusyWhileRunning`), `NewestWrites`
(`Spec => NewestSequenceWrites`) and `ThreeCopiesAgree` (`[]AgreeAtRest`), under
`RunnerAssumption` and `HeimkinoAssumption` (among others: the editor is not one of
the requests). `BusyWhileRunning` needs that tokens are never shared by
two paused runs of a key (`Distinct`) and that every paused run has a token not
above the current one (`Past`), else a new token could make an old run active
again; `NewestWrites` needs that an active run plays the list started last
(`ActiveIsStarted`). The lemmas `StartKeeps`, `ResumeKeeps`, `PassKeeps` are
about the runner alone. `ThreeCopiesAgree` follows the one request or reload under
way while no two met (`CalmInv`): what it has read is what the database still holds,
and which of database, memory and published state it has already brought to the new
mode (`RequestSound`, `ReloadSound`).

### Automation_proofs

`OneListAtATime` (`[]OneBranch`), `EnginesAgree` (`[]AgreeAtRest`),
`PushesAnswerEdges` (`Spec => NoFalseAlarm`) and `PushesRespectCoolDown`
(`Spec => CoolDownHolds`). The two engines share only the routes and the cache of the
bus, under keys of their own, so each has its part of `IInv`: `BaselineInv` (the
value a rule compares with is what the bus delivered last, except after a reload that
missed one), `RuleInv` and `ConditionInv` (while one edit at a time is saved: what its
reload has listed is what the database holds, and nothing is armed or pushed between
the two halves of a reload). The frame lemmas (`BusFrame`, `ConditionFrame` and their
like) carry each part over the steps of the others.

### GridControl_proofs

`TypesHold` (`[]TypeOK`), `ContactorSpared` (`[]NoCycling`) and `EmergencyEndsSeen`
(`Spec => EmergencyHolds`), for all delays, sets of triggers and courses of the
house. A tick is a record passed from one part to the next, and most of `IInv`
(`Sound`) is said of such a record, so that each part has a lemma about the record it
returns:

- `Founded`: what a confirmed grid is on for is remembered by the tick, and again
  after a restart as soon as the state of the contactor is adopted;
- `LoadKept`: the file is behind the load trigger only while a tick waits to save it;
- `Quiet`: the process commands "off", or believes it, only when nothing holds the
  grid; `Current`: what a waiting tick has read of the phases, the warning and the
  broker is not overtaken meanwhile;
- `Stored`: the emergency mode is in the file except between raising or lifting and
  its save;
- `HouseInv` (types of the house) and `Patient` (a delay that runs has run no longer
  than the loads were low).

`Patient` is where the proof failed at first: after a crash that loses the save of
"the delay was given up" the file still has the old begin. See section 5.

### LoadManagement_proofs

`TypesHold` (`[]TypeOK`), `StagesOpenSlowly` (`Spec => PausedRelease`),
`StagesCloseStepwise` (`Spec => StepwiseShed`) and `PassesObey` (`Spec => PassObeys`),
for any number of devices, pumps, phases and priorities. `IInv` is `TypeOK` with the
counters of the bounds and `OnlySheddable` (only a device that takes part in the load
shed is off because of it). A pass of a controller is a work record handed from one
helper to the next, so the argument is about such records: `Lawful` is what each step
over a switched device keeps (its type, and no command on while it is barred),
`Passes` the type of the record of the pool and `Rid` what its last step, `TakeOff`,
adds. A pass of the pool is two steps of the specification with one and the same end:
`PoolTickEnds` and `PoolResumeEnds` reduce both to the record `Finished`, of which
`FinishedSound` says what it keeps, whatever happened in the await. For the stages,
`StageMoves` says how `updateStage` may move one, and `StillRegistered` that a
consumer that is off because of the load is registered by every later pass of its
controller: that is why the update of the other controller does not open its stage at
once. `NextEscalationCutoff` and `NextRecoveryCutoff` need the greatest and the least
element of a set of priorities, and `Backoff` that it is a natural number: both come
from `Least` (a non-empty set of naturals has a least element, from the
well-foundedness of `<`), which replaces an induction: a least number without a table
of `Backoff` cannot exist.

`PassObeys` speaks of the pass of the pool where it ends (`ShedPassEnds`: it ends with
the load shed it found active at its beginning). It is in no run: it makes
`load_management` twice as slow. It held when TLC checked it on the instance of that
run.

### Only model-checked

- Liveness: `KeepsTrying`, `RequestsEnd`, `ProvisioningCompletes`, `EndsInTime`,
  `ComesUp`, `Settles`, `ValuesArrive`, `SettlesOnBranch`, `GridFollows`, `Obeys`,
  `ComesBack`. The prover has no rules for fairness and `ENABLED`.
- The two runs that end in a counterexample.

## 5. Findings

Runs that end in a counterexample; `PROJECT.json` quotes the text they contradict.

1. `adapter_reloads`: two reloads of one instance at the same time start two
   processes and the host forgets one.
2. `load_remote`: a wish of the remote topic that is refused while an earlier off
   waits for its confirmation is never taken back; the remote topic stays on.

### Disagreements known beyond the runs

Each is a definition of a module that TLC refutes with the constants named; no run
of the project repeats it.

- `NoAttemptAfterFailed` (`RelayConnection`; `MaxAuthFailures 2`, `BackoffSteps 1`,
  `NumPushes 0`, `Removals {}`, `MaxGen 6`): a reconnect timer left armed by
  `reconnect()` or `start()` opens a new attempt after the client has given up.
  `relay-connection.js:37-38` says it does not try any more.
- `NoUnheardError` (the same, `MaxGen 3`): a socket dropped during its opening
  handshake has no listener for the `error` event its termination causes
  (`relay-connection.js:744-749`; 84-85 says that local operation goes on).
- `AckIsOwn` (`NumPushes 2`, `MaxGen 3`): the late acknowledgement of a push that
  timed out is given to the next push (`ARCHITECTURE.md:82-83`).
- `LastWishWins` (`Heimkino`; `Segments 1`, `Passes 2`, `MaxFaults 1`,
  `Requests {w1}`, `Checked {"on"}`, `MaxSwitches 2`, no edits or restarts): a
  loop that is being played again is not cancelled when the room is switched and
  writes the old mode after the new one (`heimkino/runtime.js:8`).
- `ValuesArrive` with `Radio = TRUE`, `Limits <- RadioLimits`, no rule
  (`RuleSavers = {}`, `Enabled = FALSE`): `subscribeTopic()` skips a topic that
  `unsubscribeAdHoc()` never took out of `subscribedTopics`, and a radio topic is
  not asked for its value either; after an edit of a condition its consumer has no
  value until the device changes by itself (`mqtt/client.js:446-447`,
  `MQTT.md:421-422`).
- `ProvisioningFollows` (`PairingConfirm.cfg`): the relay has confirmed and its
  answer is lost; the next poll makes the session `confirmed`, nobody provisions
  it and the page offers no button, because there is no `provisioningError`
  (`PROJECT_CONTEXT.md:1464`). A second confirmation instead gets a conflict and
  leaves the session `confirming` until it expires.
- `FeedInHeld` (`GridControl`; `Enabled {"soc", "voltage"}`,
  `Limits <- FeedInLimits`): after a restart with the state of charge missing the
  running feed-in is switched off (`grid-control/automation.js:593-604` against
  the adoption at 488-494).
- `EveryLossTold` (`AudioBus`; the constants of `AudioBus.cfg`): a frame dropped from a
  full queue just before the session ends is never told. The gap goes with the next
  frame that finds room (`audio-bus/bus.js:21-23`), `endSession` deletes the counter
  (400-401), and the handler of the end gets the session and the reason only
  (273-274).
- `DeletedIsStopped` (`AdapterHost`; the constants of `AdapterHost.cfg`): a reload
  ends between the stop of a deletion and the removal of the row
  (`routes/adapters.js:549-550`), and starts a process of an instance that is gone.
- `FilterObeys` (`LoadManagement`; `Limits <- PressLimits`): the mode of the solar pump
  is pressed while its pass waits for the database (`pool/automation.js:212-213`).
  `setPumpMode` forgets the sample and resets the temperature mode, the pass goes on
  as automatic and begins both again. Nobody ends this sample, `_filterActsAsSolar`
  stays, the automatic branch of the filter pump (327) is skipped, and after a lost
  command or a hand at the switch the filter stays on below its level until the solar
  pump is automatic again (against the comment at 401-403 and `LEVEL_HANDLING.md:50`).
- `GateHasPrecedence` (`LoadManagement`; one pump, one change of the weather, one
  of the level): the water becomes too warm while the pump runs below its level,
  and the branch leaves it running (`LEVEL_HANDLING.md:50`).

Found while reading and not stated as properties: `cancel()` turns a `paired`
session into a `cancelled` one and the sweep can be undone by the call in
progress, against `pairing-state.js:51` (no transition out of a terminal state); a
phone stays paired at the relay when its session ends before a lost answer to the
provisioning is made up for; a manual command of `messen-schalten/automation.js`
(247-265) that is lost is not repeated; the pause before a stage opens counts from
the last escalation, not from the end of the overload; a priority that is missing
is read as 0 by `load-shed.js`; an edge that falls into the reload of rules is
lost, against the comment at `notifications/engine.js:131`, and a later value is
compared with the one before it; a crash between "the loads rose again" and the save
of that leaves the old begin of the delay in the file, and after the restart the
grid may go off before the loads were low for the whole delay; a fork that fails
emits `error` without `exit` (`adapters/host.js:413-415`) and is not restarted, against
`ADAPTER.md:702-706`; an activated instance whose manifest is missing has no entry
(`adapters/host.js:430-433`) and comes up only with the next call; an exit that is
later than the start after SIGKILL (541) takes the new entry out of the Map; the
samples run the filter pump whatever its own mode is, when it is off by hand, too, and
their end switches off a pump that is on by hand; when the priority of a stage is
registered no more, the recovery passes over the stages between (the configurations
of the model are fixed); response headers that `validateHeaders` refuses end the
process (`remote-access/origin-tunnel.js:223`).

Hazards that no property covers and the list of 40 has no room for: an answer of the
local server before the request body was received (`origin-tunnel.js:177`), a start or
end event dropped from a full queue (`audio-bus/bus.js:220`, against 23), a handler of
a plugin that answers after its timeout (236), in the Sync topic of the home cinema a
value cached before an outage (`heimkino/runtime.js:164`) and two echoes where one is
expected (174), a terminated handshake whose socket has no listener
(`relay-connection.js:745`), the windows of the grid after a restart without a state
of charge (`grid-control/automation.js:597`), water that is too warm below the level
(`pool/automation.js:217`), a job that never settles (`job-scheduler.js:14`).

## 6. Not modelled

The program has about 88 000 lines, most of them without a protocol: forecasts,
statistics and most of heating, battery and wallbox are arithmetic on measurements
(reals, calendars), which TLC cannot enumerate; views, routes and the database
layer are I/O; adapters are device protocols behind the host, each with a vocabulary
of its own. The models cover the part whose correctness depends on the order of
events, a few per cent of the lines.

Within the modelled components: contents of messages and headers,
signatures, audio formats, IPC values and host calls, the management requests of
adapters, the Sync topic of the home cinema, triggers by time, several rules on one
key, database errors of the grid control, switch groups, edits of the configuration
of consumers, several owners of pairings.

## 7. Plan

1. `DeviceLinks`: `reconcileLinkedDevices` of `identity-store.js` with the revisions
   of `device-status.js`, against removals and snapshots in any order.
2. `OutputLoop` (`output/engine.js`): an output is written again until the broker
   reports it back.
3. Wallbox and switch groups as further providers of `LoadShed`; shutters; the state
   of an update across the restart it causes; the Sync topic of `Heimkino`.
4. Abstract specification `Process` (an instance is down, up or on its way)
   implemented by `AdapterHost`.
   The properties of `AdapterHost` are proved without it.
5. `PassObeys` for the other consumers of the level, once they are modelled.
