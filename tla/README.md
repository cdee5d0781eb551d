# A TLA+ model of gpf

gpf ("global processing framework") is a C++ library in the style of the parallel
machinery of IPython: a *hub* on which *engines* register, and which watches
their hearts and keeps book of the tasks clients send through the queues.
This directory holds TLA+ modules for its core logic, TLC
configurations that check them on small instances, and TLAPS proofs of the main
properties for every value of the constants. `PROJECT.json` maps every
definition to the source lines it models. Paths below are relative to
`src/src/gpf/` unless they start with `zmq-poll-wrapper/` or `tests/`.

## 1. Inventory

| Component | State | Operations | Interacts with | Module |
|---|---|---|---|---|
| Heart (`controller/heartmonitor.cpp`, `struct heart`) | a thread, its loop | `operator()`, `bumm`, `shutdown` | receives pings over PUB/SUB, answers over DEALER/ROUTER | `Heartbeat` |
| Heart monitor (`controller/heartmonitor.cpp`) | `m_hearts`, `m_responses`, `m_on_probation`, two ping times | `handle_pong`, `beat`, `alive` | callbacks into the hub; re-arms its timer | `HeartMonitor`, `Heartbeat`, `Registration` |
| Engine tracker (`controller/hub.cpp`, `engine_set.hpp`) | `engines`, `incoming_registrations`, `dead_engines`, the id counter, scheduled timers | `register_engine`, `finish_registration`, `_purge_stalled_registration`, `handle_new_heart`, `handle_heart_failure`, `_unregister_engine`, `unregister_engine`, part of `purge_results` | heart monitor, reactor's timers, notifier socket | `Registration` |
| Task tracker (`controller/hub.cpp`, `task_set.hpp`) | `tasks`, `pending`, `all_completed`, `unassigned` | `save_queue_request/result`, `save_task_request/result/destination`, `purge_results`, `get_results`, `queue_status` | copies of the queues' traffic, clients' queries | `TaskTracker` |
| Hub (`controller/hub.cpp`) | the two trackers | the dispatchers, `_handle_stranded_msgs`, `purge_results` | everything above, on one reactor | `Hub` |
| Reactor and timers (`zmq-poll-wrapper/`) | sockets, timer queue, stop flag | `add`, `run`, `operator()`, `fire_due`, `shutdown` | runs every callback of the hub | `Reactor` |
| Engine (`engine/engine.cpp`) | `m_registered`, a REQ socket, a heart thread | `run`, `dispatch_registration`, `shutdown` | hub, heart | `System` |
| Hub factory, port pool (`controller/hub_factory.cpp`, `util/portpool.hpp`) | addresses, ports, the heart monitor | `ip`, `transport`, `hm_interval`, `get` | opens the hub's sockets, hands addresses to engines and clients | `HubFactory` |
| URLs (`util/url_handling.cpp`) | - | `url::parse`, `validate_url` | the hub's constructor, engines, hearts | `Url` |
| Client, serialization, task database | - | formatting | - | not modelled (section 8) |

What is hard here:

* *Time and messages.* Pings and pongs are lost and late; a heart's first beat
  races the deletion timer of its registration; the traffic of two queues
  reaches the hub in any order.
* *Long histories.* An engine registers, fails, revives, leaves and registers
  again, and four containers, a set of beating hearts and two kinds of timer must stay
  in step, with names whose uniqueness only four lookups protect.
* *Several lives of one name.* An engine that ends and comes back uses the same
  names; requests, departures and pongs of its earlier lives may still be under
  way, and the hub remembers them.
* *Steps that fail half way.* `get()` binds five addresses in turn and connects to a sixth; what
  was opened before a failure must go, but the reactor keeps part of it. A result without its
  optional times makes its handler throw after the sets and before the record are updated.
* *The loop itself.* Timers fire only in a pass without socket activity;
  `fire_due` pops the queue after a callback that may have pushed; deadlines
  are points of a wall clock that may be corrected.

There is no concurrency inside the hub: every handler runs to its end on the reactor's thread,
so a handler is one action. Concurrency is between the hub, the heart threads and the messages
under way. Nothing is persisted, so there is no recovery to model; an engine that crashed starts
anew under its name. `PROJECT.json` lists the hazards line by line.

What makes each component correct:

* heart monitor - a heart that answers in time is never declared failed, one
  that stopped is dropped within a bounded number of beats;
* engine tracker - names are unique; a deletion timer exists exactly for the
  registrations that wait; every registered engine is monitored; waiting ends;
  a failure is noticed;
* task tracker - the table and the sets agree; clients see a sensible lifecycle;
* hub - the task tracker is not disturbed by the engine tracker beside it;
* engine - one that is healthy gets registered and is never purged, is marked dead only by what
  an earlier life of its name left behind, and what it believes about its registration is what
  the hub has;
* hub factory and URLs - the addresses handed out lead to the hub and stay valid;
  a failure leaves as little as possible behind;
* reactor - no timer is lost, fired twice or, once it is quiet, left waiting.

## 2. Modules

```
FailureDetector <=refines= HeartMonitor <--EXTENDS-- Heartbeat      (hearts, pings, pongs)
                                |
                                +--------EXTENDS--- Registration    (engine tracker)
                                                        |  |
                                                        |  +--EXTENDS-- System (engines, clock)
TaskLifecycle <=refines= TaskTracker                    |
                              \___ Hub (INSTANCE both) _/
Reactor                    Url <--EXTENDS-- HubFactory
MC*       constants for TLC           *Proofs    theorems and their proofs
```

**HeartMonitor** has the three sets of the class and the set algebra of
`beat()` as operators, without a next-state relation: `Heartbeat` adds the transport,
`Registration` adds the hub's callbacks.

**FailureDetector** is what the monitor promises for one heart: *heard in this interval - alive;
silent once - suspect; silent again - unknown*. The refinement mapping reads the status of a
heart from `m_hearts` and `m_on_probation`.

**Heartbeat** adds the heart threads and the messages. A pong echoes the time of the ping; the
monitor compares it with its last two pings only, so a message in flight is a heart and an
*age*: how many beats ago its ping was sent, two standing for more. `Start`, `Stop` and `Bumm`
are the heart's thread; `HandlePong` and `Beat` are the monitor's handlers. Pings may be dropped
and messages may stay in flight for ever. The hearts of the constant `Prompt` stay up and are
answered for in time: their answer to a ping is handled before the second beat after it (guard
`PromptAnswered`). `downBeats` and `upBeats` are history variables: the beats since a heart
stopped or a prompt one started.

**Registration** is the engine tracker under the queries of engines, the callbacks of `beat()`
and two kinds of timer. A timer is enabled from the moment it is added; when it fires relative
to the beats is left open, which includes every order real time allows. Hearts answer or fall
silent as they like, and any queue name may be requested together with any heart name. The
stranded-messages timer of a failed engine fires at any time after the failure, whatever became
of the engine since. `acked` and `announced` record the messages the hub sent: ACKs to engines,
and what a subscriber of the notifier believes.

**TaskTracker** has one action per message type of the two queues and the purges. Only the
fields the handlers decide on are kept: id, engine and whether `completed` is a date. The times
of a result are optional (`dated`, `started`): where one is absent `from_iso_string` throws and
the handler ends there, the id already moved from `pending` to `allCompleted`, the record as it
was. `undated` is a history variable: the ids whose last result had no completion time. The
queue devices are not in the repository, so every message may come at any time, repeatedly or
never. `PurgeResults(ids, done)` erases the ids in front of the first pending one (`done`),
which is all of them when none is pending.
**TaskLifecycle** is what `get_results` lets a client conclude: a task completes once and stays
completed until it is purged, and one that is waited for is forgotten only when everything is. A
record that a throwing handler left waiting is its state `UNDATED`: the client is told PENDING,
and a purge may forget it.

**Hub** instantiates both trackers over shared variables and defines the handlers that touch
both: `_handle_stranded_msgs` and `purge_results`. The question it answers is the task
tracker's: each handler that touches both *is* a step of the engine tracker by its definition,
so nothing is claimed of that side.

**Reactor** is `run()`, one pass of `operator()` split at its observable steps (poll, each
socket's callback, each round of `fire_due`), and the timer queue. Deadlines matter only
relative to the present, so an entry has the time `left`; `Tick` lowers it, `StepBack` (a
corrected clock) raises it. A callback may add timers and set others inactive. A socket's
callback may also throw (`DispatchThrows`), as the task tracker's handlers do: the exception
leaves `run()` in the middle of the pass, and the owner may run the loop again.

**System** composes `Registration` with the engines. `run()` derives the names of queue and
heart from the engine's, so the three are one here (`Heart = Engine = Queue`). `Run` starts a
life: a heart thread and a request on a fresh REQ socket. `DispatchRegistration` reads the ACK,
`Shutdown` ends the loop and sends the departure if the socket may send (the lock-step of REQ:
only after the ACK), `HeartStops` ends the heart's thread some time later, `Crash` ends both
without a word. A name may be run again when both have ended. Requests and departures carry the
life they come from and arrive in any order, however late; pongs are kept by the ping they
answer, current or last, because those are what `handle_pong` accepts. The hub's handlers are
those of `Registration`, with the time of its two timers: `toBeat` and `purgeIn` count down to
the deadlines, `FiresNext` is the order of `fire_due`, and `Drift` is how late the loop may be.
`prompt` marks a life whose heart answers each ping before the next one is sent; it is chosen
per life. `mine` is a history variable: the id the hub took for the request of the present life.

**Url** is the parser on texts of tokens: words (with and without capitals), numbers and the
three characters it looks for. `Parse` follows the iterators of the code, `Reference` says what
a URL is: the text can be cut into protocol, host, port, path and query.

**HubFactory** has the setters and `get()`. `get()` is one action with an outcome per bind or
connect that may throw (`FirstFailure`): the sockets opened so far go, except those of the heart
monitor, which is a member of the factory and whose ROUTER the reactor holds. Which addresses
can be bound, and which of those connected to, is the constants `Bindable` and `Connectable`:
the address of all interfaces (`*`) and the name of one can be bound, and `r->connect(ci.task)`,
the last step of `get()`, throws for them. `Overlapping` says which addresses keep a port from
each other: each from itself, `*` from all of its machine. Other processes take and release
ports between the calls. The addresses are texts of `Url`.

**MCSetup** is `HubFactory` next to a text that grows token by token, so that one run checks the
set-up and the parser.

Operators named after a bug (`FinishKeepsTimer`, `MonitorBeatNoClear`, ...)
stand in front of the definition they vary. They are used by no specification: each shows a
property that a run of the varied definition violates (`mutants` in `PROJECT.json`).

## 3. Runs

States are distinct states as TLC reports them.

| Run | Instance | States | Shows |
|---|---|---|---|
| `heartbeat` | 2 hearts, 1 prompt | 8,880 | `StoppedHeartDropped`, `PromptHeartKept`, `PromptHeartInTime`, `PromptHeartFound`, and `FailureDetector` is implemented |
| `registration` | 2 hearts, 2 queues, 3 ids | 31,504 | `NamesUnique`, `PurgeOnlyWaiting`, `LiveEngineMonitored`, `LiveEngineAnnounced`, `StrandedFindsDead`, `SilenceCounts`; `WaitingResolved`, `FailureNoticed` under fairness |
| `task_tracker` | 1 MUX and 2 Task messages, 2 engines | 75,712 | `TaskStateAgrees`, `PendingXorCompleted`, `UnassignedPending`, and `TaskLifecycle` is implemented |
| `hub` | 1 engine name, 2 ids, 1 message per queue | 200,928 | the task tracker behaves as it does alone |
| `system` | 1 engine name with up to 3 lives, interval 4, floor 10, drift 1 (unit 500 ms) | 395,092 | `PromptNeverPurged`, `PromptFailedByPastOnly`, `ServingKept`, `AcceptedNameKept`, `RegisteredIsOwn`, `SecondBeatRegisters`; `PromptRegistered` under fairness |
| `setup` | 4 ips, 2 transports, 3 addresses to bind, one of them overlapping the others and not to be connected to, 3 calls of `get()`; texts up to 7 tokens | 201,293 | `ParserAgrees`, `EnginesReachHub`, `GetWorks`, `FailureLeavesMonitor` |
| `reactor` | 2 sockets, 2 timers, delays 2..3, clock set back by 1 | 59,302 | `TimersKept`, `PassShrinks`; `EveryTimerFires` under fairness |

Five more runs show where the code does not do what its comments or tests say;
TLC finds a counterexample for each.

| Run | Statement | Where it is made | What the code does |
|---|---|---|---|
| `reg_unregistration` | one way to unregister an engine "due to its own request or due to heart failure" | comment, `hub.cpp:219`; also `hub.cpp:139` | an engine's own request only erases it, and subscribers are not told (the counterexample); a heart failure only marks and announces it: the engine stays in `engines`, its names stay taken and `get_num_engines` counts it |
| `reg_ghost` | an engine that unregistered is gone | `tests/test_hub.cpp:79` | its entry stays in `incoming_registrations`; if its heart fails and beats again, `finish_registration` runs on it once more |
| `hub_stranded` | the messages on a dead engine are handled | comment, `hub.cpp:235` | the list it walks is never filled; tasks of a dead engine stay pending |
| `system_first_beat` | a heart failure is that of a "registered heart" that "fails to respond to beat request" | comment, `hub.cpp:139`; also the log of `hub.cpp:194` | an engine that comes back while the monitor still believes in the heart of its last life is registered at once and marked dead by the next beat, before its own heart was ever pinged |
| `reactor_starved` | a timer fires when its waiting time is over | comment, `timer.hpp:46` | timers fire only when poll finds no socket readable |

Deadlock is checked in every run but `setup`, where the texts stop growing at their bound.

### Bounds

* `Heartbeat`: `MaxAge = 2` is exact, since the monitor treats all older pongs alike;
  `MaxDownBeats = 4` and `MaxUpBeats = 3` are where the history variables saturate, which is as
  far as the properties look back. Hearts do not interact in `beat()`, so one prompt and one
  arbitrary heart are the two kinds there are.
* `Registration`: `MaxId` bounds the number of requests, rejected ones included. Three
  requests over two names of each kind let a name be taken, rejected,
  purged and asked for again by another engine. A failing, reviving heart needs no
  further id. The proofs hold for any `MaxId`.
* `TaskTracker`: requests are counted up to two ("more than once"). Two Task
  messages let a purge stop between two ids. Any result may lack either time.
* `Hub`: the question is a step-by-step one, namely whether each joint handler is a
  step of the task tracker, so one engine name that registers at most twice is enough.
* `System`: engines do not interact: their names are derived from their own, and the hub looks
  each up by name. So one name is enough for the properties, which are about one engine's lives;
  three requests are a first life, one that is rejected or whose messages are late, and one
  more. The unit of time is 500 ms and the constants are the code's defaults (interval 2000 ms,
  `max(5000, 2*interval)`), with a loop up to 500 ms late. The proofs hold for every number of
  names, lives and every timing with `Timeout > 2*Interval + Drift`.
* `HubFactory`, `Url`: two addresses of the machine tell whether something of the first stays
  when the second is used, and one for all of its interfaces whether that keeps the ports of
  either, with the transport in capitals and an address with a slash as those that cannot be
  bound; three calls are a failure, a retry and a call beside an existing hub. Seven tokens hold
  every separator of a URL with something between them, and duplicates of each.
* `Reactor`: `Latest` and `Farthest` bound how late the loop gets and how far
  deadlines are away. Two timers give one that adds another while it fires. `MaxBack < MinDelay`
  is an assumption of the model: a clock set back by more than the shortest delay
  while timers fire lets `pop()` take an entry that never fired. The run of
  starvation has `MaxBack = 0`, so it does not rest on the clock.

### Fairness

* `Heartbeat`: the beat timer re-arms itself (`WF(Beat)`), and prompt hearts
  answer (that is what prompt means). Nothing is assumed of other hearts.
* `Registration`: the reactor fires its timers, i.e. `Beat` and each armed
  `PurgeStalledRegistration`. This is what `EveryTimerFires` says of the reactor,
  under its condition that the sockets become quiet; in permanent traffic the code does not
  guarantee it (`reactor_starved`). No fairness for engines or clients.
* `System`: time passes, the hub fires its timers, and what a running prompt engine sends
  arrives, as does the ACK (TCP between living processes). Nothing is assumed of other engines,
  of shutdowns, of departures or of the end of a heart's thread.
* `Reactor`: time passes, the thread runs, and the owner of a stopped loop, or of one a
  callback's exception ended, runs it again. `EveryTimerFires` is conditional on the peers
  falling quiet (`~open`); nothing forces them to.
* `TaskTracker`, `Hub`, `HubFactory`: safety only.

## 4. Proofs

Theorems are for every value of the constants that satisfies the
modules' assumptions. Each invariant is proved by an
inductive one, `IInv`: `Init => IInv`, `IInv /\ [Next]_vars => IInv'`.

* **HeartbeatProofs** - `TypeCorrect`, `StoppedHeartIsDropped`, `PromptHeartIsKept`,
  `PromptHeartIsInTime`, `BeatImplementsDetector`. `StoppedHeartDropped` is not inductive:
  `StoppedInv` follows what a stopped heart leaves behind, pongs that age with each beat, then a
  response, then probation. For prompt hearts `PromptInv` names the answer that saves them: a
  known heart has responded or its answer to the last ping is on its way; one on probation has
  responded or its answer to the ping before is on its way, and that answer arrives before the
  next beat. `FoundInv` follows a prompt heart from its start: after one beat it has answered or
  its answer to the last ping is on its way, after two it is known or has answered or the answer
  to the ping before is on its way, after three it is known. Assumption: `Prompt \subseteq
  Heart`.
* **RegistrationProofs** - `TypeCorrect`, `NamesAreUnique`, `PurgesOnlyWaiting`,
  `LiveEnginesAreMonitored`, `LiveEnginesAreAnnounced`, `StrandedTimersFindDead`,
  `SilenceIsCounted`. The invariant adds where ids come from, that they identify registrations,
  and that `engines` is a subset of `incoming_registrations`: because `finish_registration`
  never erases the entry, uniqueness in `incoming` is uniqueness everywhere. The leak behind
  `reg_ghost` is thus also what makes the names unique. That ids identify registrations is what
  `LiveEngineAnnounced` rests on: the failure of one engine takes back the announcement of no
  other. `StrandedTimersFindDead` needs the entry that stays in `incoming` as well:
  `StrandedInv` says of the entries, not of the engines, that one with the id of a scheduled
  timer has its queue marked dead, because a revived heart puts the engine back from there.
  `SilenceCounts` follows from `LiveEngineMonitored`: the set algebra of `beat()` counts only
  hearts the monitor knows. Assumption: `MaxId \in Nat`.
* **TaskTrackerProofs** - `TypeCorrect`, `TaskStatesAgree`, `PendingOrCompleted`,
  `UnassignedArePending`, `TrackerImplementsLifecycle`. The invariant adds that records are
  identified by their id (the unique index), that what is pending or completed was requested,
  and which waiting records a handler that threw left behind. Assumptions: the two queues have
  different message ids, engine ids are natural numbers.
* **ReactorProofs** - `TypeCorrect`, `TimersAreKept`, `PassesShrink`. The invariant adds that a
  timer object is queued once, so popping its entry takes it out; `MaxBack < MinDelay` makes
  everything a callback adds come after the entry that is firing. For `PassShrinks` the time
  that passes, or is taken back, moves the time `fire_due` read and the deadlines alike, and
  what a callback adds is due behind that time.
* **HubProofs** - `HubImplementsTaskTracker`: each handler
  of the hub is a step of the task tracker or leaves it alone.
  The proof needs that its records are records (`TasksTyped`), because the stranded handler
  rewrites the table with an empty list of ids.
* **SystemProofs** - `SysTypeCorrect`, `RegistrationIsOwn`, `AcceptedNamesAreKept`,
  `ServingIsKept`, `OnlyPastFailsPrompt`, `PromptIsNeverPurged`, `SecondBeatDoesRegister`,
  `SystemImplementsRegistration`, `TrackerIsSafe`. Every step of `System` is one of
  `Registration` or leaves it alone (`StepOfRegistration`), so `System` implements the engine
  tracker, and the invariant of RegistrationProofs carries over with the safety properties it
  proves (`TrackerIsSafe`, five of them). `OnlyPastFailsPrompt` adds `NothingLeftOver`: until
  the first heart of a name is pinged no answer of it is under way and the monitor knows nothing
  of it. From its first ping on, a prompt heart has answered or its answer arrives before the
  next beat, so no probation can fail it. `Links` ties the engines to it: whose registration an
  id is, that accepted entries stay, that a departure belongs to an entry that is not the
  present life's, that a pinged prompt heart has answered or is about to. `RaceWon` is the
  argument about time: before the first ping the purge is later than the next beat by more than
  an interval and the lateness; after the ping it is later than the next beat, and that beat
  finishes the registration. It starts to hold at the request because `Timeout > 2*Interval +
  Drift`, the one assumption of `PromptIsNeverPurged`; with the default interval it means a loop
  less than a second late.
* **UrlProofs** - `ParserMeetsReference`, `OneReading`: for a text of any length the parser
  finds what the reference finds, and a text has at most one reading. `std::find` is the least
  position of a character, which exists because `<` on the naturals is well-founded. Every cut
  the reference allows puts each separator where the parser finds it, since the part in front of
  it may not contain it; and the parser's own cut is one the reference allows.
* **HubFactoryProofs** - `FactoryTypeCorrect`, `HubsAreReached`, `FailuresLeaveMonitors`,
  `FactoriesWork`, `AddressesAreReadBack`, `PoolNeverRepeats`, `TypedTextsAgree`.
  `AddressesAreReadBack` cuts the text the factory formats and gets the one reading from
  `OneReading`; so every bound address is a URL, and two addresses that are equal have the same
  port. `FactoriesWork` is an equivalence: `EveryBindSucceeds` and `Connectable` leave `get()`
  no step to fail at, and `ThirdBindDecides` says that a ROUTER left at an overlapping address
  is one the pong's bind meets. `PoolNeverRepeats` counts the ports handed out before a call:
  the ranges of two calls do not overlap. `FactoryInv` says that every bound socket has one of
  the addresses the code formats, that the monitor URL follows the setters, and that wherever a
  heart monitor's PUB socket is bound its ROUTER is too. `LeftOver` is what failures leave while
  there is no hub: sockets of heart monitors only, because each attempt first lets go of the PUB
  socket of the one before. Assumptions: `StartPort \in Nat`, what can be connected to can be
  bound, an address overlaps itself, and `AddressAssumption`: the transport and the address a
  socket is *bound* to contain no separator. It holds for tcp with interface names, host names,
  `*` and IPv4 addresses, of which only host names and IPv4 addresses can be in `Connectable`.
  Paths (ipc) and bracketed IPv6 addresses are outside it: their characters cut the text
  elsewhere, and `validate_url` rejects or misreads such an address. What the setters are called
  with is not restricted.

Only model-checked: the liveness properties, which need reasoning about fairness and `ENABLED`
that the prover does not offer. Of three, the safety half is proved: `PromptHeartInTime` (of
`PromptHeartFound`), `SilenceCounts` (`FailureNoticed`) and `SecondBeatRegisters`
(`PromptRegistered`); each says that the step it counts on does its work, and what remains is
that the step is taken. For `EveryTimerFires` it is `TimersKept` and `PassShrinks`. The task
tracker's invariants also hold in `Hub`, as it implements the tracker; the prover cannot cite a
theorem through a renaming INSTANCE, so they are not restated there (in `System`, which EXTENDS
`Registration`, the engine tracker's are).

## 5. Abstractions

* One hub in a process. `next_id()` is a static counter, so a second hub would share it; here it
  starts at 0 with the hub.
* Stranded-message timers are a set of ids: scheduling a second one for the same id
  while the first is pending changes nothing the handler could tell apart.
* `register_engine` returns before it takes an id when its header does not parse; such a
  message changes nothing and is no action. The same holds for the other handlers.
* Of the times in a message only their presence is kept: a result without one is `TaskTracker`'s
  `dated` or `started`, and a request without its time throws before it changes anything. A time
  that is present parses. The tracker's state after the throw is what the next `run()` of the
  loop meets.
* An engine that comes back is a new `engine` object: `run()` on an old one would find
  `m_registered` still set. A new life begins after the loop and the heart of the one before
  have ended; the code joins no thread, and destroying a heart that still runs is undefined
  behaviour.
* A second ACK (a stale registration finished again) finds no request open on the REQ socket and
  is dropped there. The ROUTER sends the ACK to the connection the request came from, which a
  new life does not share.
* Time in `System` passes for the beat and for deletion timers; the stranded-messages timer
  only reads the tracker and fires at any time.
* `ip()` and `transport()` set three copies to one value; `HubFactory` keeps one. The bind for
  `m_client_ip != m_engine_ip` is unreachable. The addresses of the mux, task, control and iopub
  queues are handed out and bound by nobody in the repository.
* In `Url` a number is a run of digits that fits an `int`; signs and larger numbers are left
  out. The check of the text's length is implied by the host that must follow "://".
* In `Reactor` poll returns exactly when it should; the unit of its timeout
  argument (section 6) depends on the ZeroMQ version.

## 6. Known gaps

Hazards that no property covers are in `PROJECT.json` with a note: the unit of `next_timeout`
(microseconds, for a call that takes milliseconds since ZeroMQ 3), a heart destroyed under its
running thread, and the beat timer of a heart monitor that a later `get()` replaced.

What the checks say beyond the findings of section 3:

* With an interval of 2500 ms or more, `max(5000, 2*interval)` is exactly two intervals.
  An engine that registers just after a beat is then heard at the very moment
  its registration is purged, or later if the loop is late: `PromptNeverPurged` fails
  for `Interval = 3`, `Floor = 5`, `Drift = 0`.
* An engine whose name was accepted once never gets it back (`AcceptedNameKept`): its entry
  stays in `incoming_registrations`, a new request is rejected without an answer, and the engine
  waits for ever. `PromptRegistered` therefore excludes names held by an earlier life.
* A `get()` that fails behind the heart monitor leaves its ROUTER bound, so a second attempt at
  the same address, or at one that overlaps it, cannot succeed (`GetWorks` names it). With `*`,
  which can be bound and not connected to, the very first `get()` fails in this way, and no
  address of the machine works afterwards.
* A task whose result came without completion time is shown PENDING to clients although its id
  is completed (`TaskLifecycle`'s `UNDATED`), and a purge of its id is carried out. So the table
  and the sets agree up to these ids: `TaskStateAgrees` speaks of `undated`.
* A result without its start time completes the record and leaves its engine as it was.
* At the first beat of a later life, what the life before left can fail a healthy engine
  (`system_first_beat`): it stays marked dead, since nothing ever takes a queue out of
  `dead_engines`, while it goes on serving. `PromptFailedByPastOnly` says that this is the only
  moment.
* Reading shows, without a run: the comment of the result handlers says "update record anyway,
  because the unregistration could have been premature" (`hub.cpp:360`), and a result without
  completion time does not; and `queue_status` counts its lengths inside `if(verbose)`, although
  its comment (`hub.cpp:497`) promises them to requests that are not verbose.

## 7. Plan

Done, in this order: heart monitor, engine tracker, task tracker, hub, reactor, engines on one clock
with the hub, set-up, and proofs for all of them. What could follow:

1. `Reactor` composed with the timers of `System`, so that `Drift` is derived from
   the traffic and not a constant.
2. The timers of heart monitors that a later `get()` replaced.

## 8. Not modelled

* `client`: a loop without handlers. Its queries are inputs of the modules above.
* `serialization`: wrappers of two libraries; a header either parses or is ignored.
* `controller/db.hpp`: unused, and its `update` always throws.
* In the hub: `queue_status`, which only reads the table, `shutdown_request` (announces and
  exits the process), `check_load` (reads two lists nothing fills), and the empty handlers.
