# ArteMultimedia: a model of the firmware

ArteMultimedia is an mbed OS (RTX) firmware for interactive art: touch electrodes, led
strips, servos and an MQTT link, each driven by a module with its own thread, all talking
over a publish/subscribe broker inside the program. The application that is built
(`src/main.cpp`, `src/src/Apps/app_RGBGame.cpp`) is a light game on a tower of leds.

This directory holds TLA+ modules that model the parts of it with logic of their own, the
TLC configurations that check them, and proofs for TLAPS. Paths below are relative to
`src/src/`.

## 1. Inventory

| Component | State it keeps | Operations | Talks to |
|---|---|---|---|
| **Active objects** `Middleware/ActiveModule`, `Middleware/StateMachine` | `_curr`, `_next`, a bounded message queue, `_ready`, topic bases | `task`, `run`, `tranState`, `nextState`, `raiseEvent`, `putMessage`, `getOsEvent` | derived modules through handlers |
| **RGBGame** `Apps/RGBGame` | the machine, `_timeout`, `_acc_timeout`, `timed_play`, `_tmr`; shared with a second thread: `_stat.flags`, `_stat.cycles`, colours, signals | four handlers, `subscriptionCb`, `timed`, `effectsThread`, `waveEffect`, `switchOff`, `switchLeds` | broker (touches in, colours out), led and servo drivers, FSManager |
| **MQLib, identifiers** `Middleware/MQLib/MQLib.h` | token provider, identifier of every topic | `generateTokens`, `createTopicId`, `matchIds` | inside the broker |
| **MQLib, broker** `Middleware/MQLib/MQLib.h` | topic list, subscriber lists, a recursive mutex | `start`, `subscribeReq`, `unsubscribeReq`, `publishReq` | every module calls it; it calls their callbacks, locked |
| **MQLib, List** `Middleware/MQLib/List_tpp.h` | linked nodes, one cursor, a limit | `addItem`, `insertItem`, `removeItem`, walks, `searchItem` | broker |
| **MQNetBridge** `Middleware/MQNetBridge` | a machine, connection status, `_client`, bridged topics | `connect`, `disconnect`, `reconnect`, `mqttThread`, callbacks | broker on one side, MQTT on the other |
| **MQSerialBridge** `Middleware/MQSerialBridge` | a buffer for each direction | `task`, `subscriptionCb`, callbacks of the terminal | SerialTerminal, broker |
| **CyberRibs** `Middleware/Robotics/CyberRibs` | a machine, calibration data in flash | handlers per mode, calibration commands | servos, broker, NVFlash |
| **TouchManager** `BspManagers/TouchManager` | `_sns`, `_curr_sns`, glitch and hold tickers | `job` on the signals Irq, Hold, AntiGlitch | MPR121, broker |
| **ServoManager** `BspManagers/ServoManager` | duties, step, ticker | `startMovement`, `stopMovement`, `onTickCb` | PCA9685, broker |
| **ProximityManager / HCSR04** | echo state machine, filter, timers | `start`, `stop`, `trigger`, `echoStart`, `echoEnd`, `echoMissing`, `restart` | interrupts, broker |
| **SerialTerminal** `BspDrivers/SerialTerminal` | receive buffer, what is being sent, a break timer | `onRxData`, `onRxTimeout`, `onTxData`, `send`, `recv` | interrupts, MQSerialBridge |
| **PushButton** `BspDrivers/PushButton` | level, filter and hold timers | interrupt and timer callbacks | interrupts |
| **FSManager** | nothing (interface stubs) | open, save, restore | - |
| **Register drivers** MPR121, PCA9685, WS281x, DMA, NVFlash | register images, channel table | bus I/O | hardware |
| **Applications** | wiring | create, subscribe, wait for `ready` | all |

*Interactions.* A module publishes by calling the broker in its own thread; the broker
calls the subscribers' callbacks in that same thread, with its mutex held. A callback of
an active object allocates a message and puts it into the object's queue; the object's
thread takes it out and hands it to its current state. RGBGame moreover tells its effects
thread what to play by setting a signal, and is answered with messages to its own queue.

*What is hard here, and what being correct means.*

- **Two-step transitions.** `tranState` only records `_next` and posts EV_EXIT; the EV_EXIT
  handler calls `nextState`, which installs the state and only posts EV_ENTRY. Messages of
  other threads get in between, the queue may refuse either message, a second transition
  may overwrite the first. Correct: no transition is stranded; a timeout never sees one
  half done; `_ready` is not early.
- **Two threads over unprotected flags.** `_stat.flags |= ...` and `&= ~...` in both threads
  are read-modify-writes, so a cancel or a setting may be lost. Signals are taken together
  but dispatched with a `switch`. Correct: what is started is taken up; every state ends.
- **Late messages.** The end of an effect or the game timer may be handled in a state that
  has nothing to do with it.
- **Identifiers computed once, compared for ever**, over a table that grows, by comparing
  beginnings of texts, with 0 meaning both "unused" and "unknown". Correct: identifiers do
  not go stale, no subscriber is missed.
- **Callbacks inside the lock**, which publish and subscribe over the same list cursors. Correct:
  the recursive mutex is balanced, every call returns, each subscriber is called once. (The last two
  are not so when a callback subscribes, see section 3.)
- **A status that stands for an object.** Publishers of other threads read `_stat` of
  MQNetBridge and then use `_client`, which the thread of the connection makes and deletes.
  Correct: the status never promises what is not there; whatever fails, and whoever notices,
  the bridge is connected again. Its reads have no timeout, so this is up to the server too.
- **Edges, filters and ticks** (TouchManager): the line of the touch controller interrupts once
  and stays down until the status is read; three sources set signals that the thread takes
  together and each part of `job` may return early. Correct: no change is left behind.
- **Interrupts inside start and stop** (HCSR04): four interrupts may come between any two
  statements. Correct: a measurement has its deadline and times its own echo; `stop` is either
  done or undone as a whole; an event rests on measures of its own measurement. Above it, ProximityManager reads two fields that interrupts change.
- **One buffer, two ends** (SerialTerminal, MQSerialBridge): interrupts fill and empty buffers that
  threads read and write, and the receiver turns itself off, while the UART keeps one more byte. Correct: frames stay whole, the
  receiver is always started again, a callback that waits for the line returns.
- In the parts not modelled: duties freed under a pending tick (ServoManager), a level read twice
  (PushButton), calibration erased before it is rewritten (CyberRibs).

`PROJECT.json` lists each of these at its line, under "hazards".

## 2. Modules

```
ActiveModule <---(instance, refined by)--- RGBGame
   ^    ^                                     ^
   |    +----(instance, refined by)---- NetBridge
   |                                          ^
ActiveModule_proofs <----(instance)---- RGBGame_proofs, NetBridge_proofs

TopicId <--- TokenTable <--- MCTokenTable, TokenTable_proofs
   ^
   +------ MQBroker ---(refines)---> PubSub
CursorList <--+  ^
                 MCMQBroker, MQBroker_proofs ----(instance)---> TokenTable_proofs

HCSR04 <--- ProximityManager <--- ProximityManager_proofs
SerialTerminal <--- MQSerialBridge <--- MCSerialBridge, MQSerialBridge_proofs
TouchManager <--- TouchManager_proofs
```

**ActiveModule** is the abstract active object: any states, any user events, any relation
`Moves` saying which transition a handler may ask for. One action per step of the thread:
`Start` (task up to `initState`), `Get`, `GetTimeout` (EV_TIMED is made by `run` when `get`
times out and is never queued), and a dispatch for EV_ENTRY, EV_EXIT and the rest.
`Post(e)` is any other thread. Its guard `Open` is the program's wiring: whoever posts is
subscribed or started by the first EV_ENTRY handler, or by the application after `ready()`.
A full queue refuses a message and only a trace says so: `lost` records when that hits
EV_ENTRY or EV_EXIT. `fresh` (installed, EV_ENTRY not handled) and `entered` are history.

**RGBGame** is the game, both threads, its timer and the touches. `prog` is what is left of
the handler in progress, a sequence of the accesses to shared memory it makes, in order:
`StartEffect` is load flags, store flags with Cancel, set the signal. `Handler(s, e)` gives the
sequence for each state and event, straight from the four `*_EventHandler` functions. The
effects thread is a program counter `fx` over `effectsThread` and `waveEffect`; `FxFlags` are
its read-modify-writes, with `reg` for what a thread has loaded. `FxWake` takes all signals at
once; `FxRun` is the `switch` on their value, which plays nothing if it is more than one.
A release is posted as a press, as the code does: `Discards` is the comparison of
`subscriptionCb` (RGBGame.cpp:92) of the value 0 with the flag TouchReleaseEvt, 32.

**TopicId** is the pure part of the broker: a name is the sequence of its levels and what the
code asks of two texts is only whether one begins with the other (`strncmp` with the length of
the one looked for), so texts are values and `Prefix` is a relation on them. `CreateTopicId`,
`MatchIds`, `AddToken` are the functions of the same names; `Matches` is the usual meaning of a
filter, to compare with.

**TokenTable** puts them in time: names are registered one level at a time, topics created,
removed, created again, while publishers look at the table at any moment.

**CursorList** is `List` as a sequence with the one cursor that all walks share.
**MQBroker** is the broker called from several threads: `calls[t]` is the stack of calls thread
`t` is in, since a callback may publish or subscribe (`PublishNested`, as in the library's test, and
`SubscribeNested`, as in `subscriptionCb` of MQSerialBridge); each frame has the locals of `publishReq`,
`subscribeReq` or `unsubscribeReq`. The lock is a recursive mutex with owner and depth; what
happens inside it is split only where other threads can see it or a callback comes in between,
and what happens outside it (the publisher's `createTopicId`) is one step per level. `astray` is
history: the threads of whose callbacks one has subscribed, which moves the cursor of the
publication that it was called from to the topic it names.
**PubSub** is the promise: publications are one at a time, each reaches every subscription that
means its name once, subscriptions do not change meanwhile. It may reach more than that.

**NetBridge** is the link to the remote MQTT server. Its machine is an instance of ActiveModule with
one state. `mq` is where `mqttThread` is: one step per statement that changes `_stat`, `_network`,
`_net` or `_client`, so that `reconnect`, `disconnect` and `connect` can be interrupted where another
thread can tell. `Interface`, `Socket` and `Session` each work or fail (`Fails`), the session may be
lost at any time, the interface may lose its address. Where the thread reads from the server
(`Reading`: the answers to CONNECT and SUBSCRIBE, and `yield`) it may also stay for ever. `call[c]` is where a publishing thread is in
`subscriptionCb`, with the broker's lock: it reads `_stat`, then `_client`, then publishes; `Drop`
deletes the client under whoever is in its `publish`. The client of the vendored MQTT library is
only `up` or not.

**TouchManager** has the status of the chip (`elec`), its interrupt line, the two tickers and the
thread, with one step per part of `job` and one per message. The line goes down at a change and up
when the status is read; only its falling edge interrupts (`Change`). A read may fail, and then says
that nothing is touched and leaves the line alone (`Touched`). `task` sleeps until the driver says that
it is Ready (TouchManager.cpp:136); the model begins where it is. `reported` is history.

**HCSR04** has the four interrupts as one step each, since they have one priority, and `start` and
`stop` statement by statement, the loop that clears the filter slot by slot (`ResetCurr`, `ClearSlot`),
so that any interrupt may come between two of them. The echo timer
is known by what matters of it: at zero, started by the echo in course, running for longer than
that, or held. `samples` is history. **ProximityManager** puts the thread above it: signals, the two
reads of the fields of the last event, in either order, and publications, which wait for the broker
while a command holds its lock. What the messages of InvalidDist and MeasureError say is left out.

**SerialTerminal** has the interrupts of a serial line in the mode the bridge uses. A byte is the
number of its frame and its place, so that frames cut short or put together are told apart.
Turning the receive interrupt off only masks it: one byte that comes meanwhile is `held` by the UART
and received as soon as the interrupt is on again (`AttachRx`), in front of whatever follows. One more
is an overrun, after which the next transmit interrupt reads the held byte away (`ClearOverrun`), as
the handler of mbed OS does; that this read clears the condition, as its comment says, is taken from
there, since the chip is not in the source.
**MQSerialBridge** has the thread, which receives frames and publishes them, and `subscriptionCb`,
one call at a time under the broker's lock, which composes a frame in the buffer that the
interrupts send from.

**MCActiveModule**, **MCTokenTable**, **MCMQBroker**, **MCSerialBridge** give the parameters values.

Definitions with the comment "mutant of X" are X with a plausible bug; no specification uses
them. Each property is shown to depend on the code by replacing X with one of them.

## 3. What is checked

| Run | What it asks | Bounds |
|---|---|---|
| `active_module` | no transition is stranded, none is half done at a timeout, `_ready` is true to its word, transitions complete | three states, two user events, a queue of 4, so that it fills and refuses EV_EXIT and EV_ENTRY; one state can be left on two events, so that transitions overwrite each other |
| `game` | the game is an active object; leds are started; effects are taken up; stGame, stConfig and stWait end as they should | up to 3 touch messages, presses and releases; a wave of 3 points; queue of 16 |
| `tokens` | identifiers do not go stale; no match is missed; no false match between names whose texts are told apart | 8 names over 6 texts: one text begins another, a scope, `+` and `#` at level 2 and a name that is a wildcard at level 1, names longer than what is compared |
| `broker` | MQBroker implements PubSub while callbacks do not call it | 2 threads, 2 subscribers, a name and a wildcard filter that means it |
| `nested_publish` | mutex balanced; nobody called twice and every call returns, unless a callback that subscribes has led a publication astray | 2 threads; a subscriber whose callback publishes, to itself too, and one of a wildcard filter whose callback subscribes it to a name the filter means; 3 names and room for 2 topics, so that LIMIT_EXCEEDED happens |
| `all_invoked` *(violated)* | a publication reaches every matching subscriber | 2 threads, 2 subscribers, 2 topics, callbacks publish anything one level deep |
| `net_bridge` | Connected means a client; no session outlives its socket; what is asked for is attempted; the bridge comes back unless a read is never answered; it is an active object | 2 publishing threads, 3 commands, a queue of 2, 3 failures of wifi, socket or session anywhere |
| `publish_operative` *(violated)* | a publisher that saw Connected publishes with a client | as above |
| `touch` | no interrupt is left behind; with nothing pending the module knows what is touched; it comes to rest | 2 electrodes, 4 changes of the chip, 1 failing read |
| `release_notified` *(violated)* | a release that lasts is published | 1 electrode, 3 changes, no failure |
| `distance` | a measurement has its deadline and times its own echo; no driver half alive; events follow alike samples of this measurement; the last event is published as it was | 3 commands, 4 pulses, a filter of 2, distances below, at and beyond the range |
| `serial` | the receiver is on unless its signal waits; frames go out whole; frames received whole, with no byte of before in front, are published; the callback returns | 3 frames of a peer: one fits the buffer, one does not, one has no data; 2 publications |

*Why the bounds are enough.* Three touches are what it takes to go Wait, Config, Game and back
while an earlier effect's end is still in the queue; the next touch meets a state that was
reached before. The wave only counts its points and cycles, so 3 points stand for the 35 of a cycle:
wrapping around, decrementing the cycles and ending all happen. The number of endless cycles
is compared and never counted down. With 3 touches the queue of 16 holds 6 messages at most,
so nothing is refused in `game`; what a full queue does is the matter of `active_module`, and of the
type invariant, which says what holds without a refused EV_ENTRY or EV_EXIT and what holds anyway. Two threads are enough for every pair of broker calls to interleave, and two
subscribers and two topics for a cursor to have somewhere to be lost. In `nested_publish` the
three names are one that only a callback subscribes to, one whose callback publishes, and the filter, so
that the limit of two topics is reached in each order. `broker` uses the symmetry
of threads and of subscribers; no run with a liveness property does.
In `net_bridge` three failures are enough to fail at each of interface, socket and session in one
behaviour, with the two publishers in every phase of their callback; a queue of 2 fills with the
three commands. In `touch` four changes are a touch, a change while its filter runs, one while it is
being published, and one more during a hold tick; how many electrodes there are matters only to
which messages `job` sends. In `distance` three commands are a start, a stop that an interrupt
undoes, and a start over what is left; four pulses fill the filter, make an event, and are
interrupted once; two slots are enough for an echo to end between them. In `serial` the second publication waits for the first to leave, and the frame
that does not fit leaves a tail to be received after the receiver is started again.

A few properties are proved only, since a theorem for every value of the constants says more than a
run: that the bridge does not connect without a configuration (`Configured`), that `send` refuses
no frame (`NoneRefused`), that one thread at a time is inside the broker (`Exclusive`), that its
publications recognise what they are to reach (`Recognised`), and the type
invariants of TokenTable, TouchManager and NetBridge.

*Deadlock* is checked in the runs of the active objects and of the broker: where the model has
nothing to do there, the system really waits for ever (there is no such state while a module's
timeout can pass or a call can be made). `touch`, `distance` and `serial` do not check it: the
module rests once the electrodes stay as they are, the driver is stopped or has sent its last
pulse, and the peer has no more to say; that they do not stop earlier is what `ComesToRest`,
`Published`, `Delivered` and `Returns` are for.

### Fairness and time

- *ActiveModule, RGBGame:* weak fairness of each thread. Both threads of the game have the same
  priority and RTX is built with round robin, so each runs again and again; the 30 s timer
  expires once started. Touches and posts of others are under no obligation.
- *Time* is kept by three guards of RGBGame, each from delays in the code. The 10 s of
  `_timeout` do not pass while an effect is being played (`GetTimeout`): effects take less than
  6 s from one message they post or are started by to the next, and any message restarts the
  wait. The 30 s timer does not expire before the handler that started it has returned and its
  effect has been taken up (`TimerExpires`). The game thread has handled an EffectCycle message
  when the 2 s that follow it in `waveEffect` are over (`FxResume`). Nothing else is assumed of
  the order in which things take their time.
- *MQBroker:* weak fairness of the steps that wait for nobody (callbacks return, and nest no
  deeper than `MaxDepth`), strong fairness of those that take the mutex: RTX queues waiters of
  equal priority in order, so one that waits gets it although others keep asking.

- *NetBridge:* weak fairness of the module's thread, of callbacks that have begun, and of `mqttThread`
  except where it reads from the server. The driver of the interface gives opening a socket and sending
  timeouts of its own. Reading has none: `MQTTNetwork::read` ignores the one it is given
  (MQTTNetwork.h:16), the socket blocks (MQNetBridge.cpp:383) and `TCPSocket::recv` waits for ever.
  So nothing is assumed of the steps `Session`, `Subscribe` and `Lost`, and `ComesBack` says that the
  bridge is connected for good in the end or that the thread stays in one read. Strong fairness of taking the broker's
  mutex, as above. Nothing makes the network fail or commands come. The hand-over of a received
  message (`Receive`) is under no obligation.
- *TouchManager:* tickers tick and the thread runs, under no bound of time. Electrodes change as
  they like.
- *ProximityManager:* tickers tick, a command that was begun goes on, the thread runs. The sensor
  is under no obligation: an echo may never come.
- *MQSerialBridge:* silences end and the transmitter interrupts; the thread and a callback in its
  loop run, since they yield (`Thread::yield`, priorities being equal). The peer may fall silent.

### What the violated runs show

1. **all_invoked** - MQLib.h:408. A publication from a callback leaves the shared cursors at the
   end of the lists, and the outer publication stops there. The library's own test publishes
   from callbacks (`Middleware/MQLib/test/test_MQLib.cpp`).
2. **publish_operative** - MQNetBridge.cpp:193. A callback has read Connected; before it has read
   `_client`, or while it publishes with it, `mqttThread` finds the session lost, cannot open the
   socket again and deletes the client. What does hold is `ConnectedHasClient`: at the moment of
   the test there is a client.
3. **release_notified** - TouchManager.cpp:71. A hold tick reads the status before the interrupt
   of the release has been handled, takes it as the current state and returns; the interrupt then
   finds nothing changed. The message ELEC,0 is never sent. What does hold is `Settled`: the module
   itself knows.

More facts are visible in the code and built into the models, rather than stated as properties of
a run of their own:

- A callback that subscribes may make a publication endless. With the topics X and mqserialbridge/#, in
  this order, a publication of mqserialbridge/suscr with the message X makes the callback of the serial
  bridge subscribe to X (MQSerialBridge.cpp:196). `findTopicByName` (MQLib.h:562) leaves the shared cursor at
  X, so the publication goes on from there (MQLib.h:408), comes to mqserialbridge/# again and calls the
  same callback, again and again, with the mutex held; all other threads then wait for ever. In
  `nested_publish` both `AtMostOnce` without `\ astray` and `CallsReturn` without its second disjunct are
  violated in this way. This is why both have their conditions.
- A server that accepts the socket and never answers keeps `mqttThread` in a read for good (above). It may
  also be in the read of `yield` when a publisher fails to send and closes the session: the status
  stays Connected and no reconnection is tried until the read returns.
- An echo that ends while `start` clears the filter is compared with slots not yet cleared
  (HCSR04.cpp:67), so it may make an event that rests on measures of before: `Filtered` says what holds
  outside that loop, and is violated without its second condition.
- The message of InvalidDist reads the filter at its current index (ProximityManager.cpp:73), which after
  `start` is one past the last slot.
- A byte held by the UART while the receiver was off comes in front of the next frame, which is then
  published on another topic, or not at all if the byte ends a token: `Delivered` is about frames with
  nothing in front of them.
- Releases act as presses in RGBGame (above).
- Two effects started before the effects thread runs are taken up as one value that is no `case`
  (RGBGame.cpp:480), and neither is played.
- An EffectEnd of an earlier effect is taken in stGame for the end of the game (RGBGame.cpp:353):
  it overwrites the stConfig that a touch has asked for, or leads to stWait with an endless wave
  still on. This is why `WaitGoesDark` has its condition.
- A touch that stConfig handles before its own EV_ENTRY is forgotten, since EV_ENTRY assigns all
  flags (RGBGame.cpp:234).
- `createTopicId` compares with the length of the text looked for (MQLib.h:683): after "ab", "a"
  gets the number of "ab"; and `+` and `#` are wildcards only at the second level, although the
  application bridges `xrinst/rgbgame/+/+/stat`. `NoMissedMatch` and `NoFalseMatch` say what holds
  in spite of it.
- `generateTokens` (MQLib.h:599) never compares the number of tokens with the size of its array.
- The count-down of stConfig starts at its EV_ENTRY (RGBGame.cpp:222) or at a touch: if the queue refused
  EV_ENTRY, EV_TIMED goes on counting from where the visit before had ended, below 0. `TypeOK` of RGBGame
  has its bounds under `~lost`; without that condition six touches and a queue of 2 break them.
- A failing read of the touch controller leaves it without any further interrupt
  (MPR121_CapTouch.cpp:220).
- `stop` of HCSR04 may be undone by an interrupt between its statements; `Driven` says that it is
  then undone as a whole.
- A serial frame whose beginning was lost is published on a cut topic, its CRC being good
  (MQSerialBridge.cpp:150); the CRC covers the data only.

## 4. What is proved

TLAPS checks these for every value of the constants that the modules' assumptions admit.

**ActiveModule_proofs** (assumption: `ActiveModuleAssumption`: the events the system uses are not
user events, the queue has room for something).
- `Typing`: `TypeOK`, with the queue within its capacity. Inductive by itself.
- `Driven`: `TransitionDriven`. Inductive given `TypeOK`. Each step is shown to keep a pending
  message pending (`GetKeepsPending`, `PutKeepsPending`, `HandleFacts`), and `RaiseFacts` says
  that raising an event makes it pending or records its loss.
- `Settled`: `TimedWhenSettled`. It needs `TransitionDriven`: a timeout happens on an empty
  queue with nothing in hand, so neither EV_EXIT nor EV_ENTRY is pending; and
  `IdleUntilStarted`, nothing is in hand before the machine starts.
- `Ready`: `ReadyAfterEntry`. The strengthening is `OnlyEntry`: until EV_ENTRY has been handled
  it is the only message there is, because nobody else may post, and it cannot be refused
  because it is the first.

**RGBGame_proofs** (assumption: `RGBGameAssumption`).
- `GameIsActiveModule`: RGBGame implements ActiveModule, for any queue, wave length and number
  of touches; the steps of the machine are those of ActiveModule, and every step of the effects
  thread and of the shared memory leaves the machine alone.
- `GameDriven`: hence `TransitionDriven` holds of the game, from `Driven`.
- `LedsFirst`: `LedsStarted`. The strengthening follows the start across both threads: nothing has been
  taken yet (`Asleep`), the handler of the first EV_ENTRY is between two of its accesses, with the flag
  set before the signal (`Entering`), or the effects thread is on its way to the wave with the flag
  still there (`Going`). Meanwhile touches are the only messages, since nobody else may post.
- `Typing`: `TypeOK`, for any queue, wave and touches. `Data` has the shared variables; to be kept by the
  handlers it needs to know what these may still do (`Program`: `prog` is a sequence over the accesses
  of its state and event, `Ops`). `Ticks`: EV_TIMED, made while `_timeout` is finite, finds it finite.
  `CountDown` is the count of stConfig while nothing was lost: between EV_ENTRY and the transition that
  EV_TIMED decides on, the count is between 1 and 3 (`Counts`), or the accesses that set it are still
  due (`Due`). It needs `TimedWhenSettled`, taken from `Settled` of ActiveModule_proofs: EV_TIMED in the
  middle of a transition would count on from an old value.

**TokenTable_proofs** (assumptions: `TopicIdAssumption`, texts are a set with a reflexive
"begins with" in which a wildcard begins only itself; `NamesAssumption`).
- `IdentifiersStable`: `IdStable`. It is not inductive: a text that nobody begins with has
  number 0, and adding it would change the number. The strengthening `FixedInv` says that every level
  of a registered name is `Fixed` - some entry begins with it already, or it is a wildcard and
  the table has an entry, so that it will never be added - and so are the levels already dealt
  with of the name being registered. `FirstStable` is the heart: appending leaves the first
  entry that begins with a text first.
- `Typing`: `TypeOK`. That an identifier consists of numbers needs `Smallest`: if an entry begins with
  a text, there is a first one.
- `NothingMissed`: `NoMissedMatch`. Matching alone is complete for any table (`Complete`): equal texts
  have equal numbers, a wildcard matches any. `IdStable` does the rest, since what is compared are
  identifiers computed at different times.
- `NothingElse`: `NoFalseMatch`. A level of a name whose texts are told apart has a number that says
  which entry it is (`DistinctLevel`), so equal numbers are equal texts (`Sound`).

**MQBroker_proofs** (assumptions of MQBroker: `NoneAssumption`, None is no thread, name or
subscriber, nor a publication of PubSub; those of TopicId). Any number of threads, names and
subscribers, any callbacks, publications and subscriptions nested to any depth, any room in the
topic list. Four
invariants, each on top of the ones before:
- `LockInv`: the mutex has an owner while its count is not 0, and the count is the number of calls
  of its owner that are between lock and unlock. Every call but the innermost is in a
  callback (`Stack`), hence inside; so that number is the length of the stack, or one less
  (`Held`), and each step changes it together with the count. It gives `Balanced` (`LockHeld`) and
  `Exclusive`: two calls between lock and unlock are of one thread.
- `BrokerInv` adds what the topics and the calls are. `DataInv`: the list has the topics of the heap,
  once each, and every identifier is the one its name would be given now, all its texts being fixed.
  That identifiers and completeness survive more texts is not proved again: the lemmas of
  TokenTable_proofs are used through an instance (`Table`). `CallsInv`: a frame inside the broker
  only points to topics that exist - no other thread can unsubscribe them meanwhile, and callbacks
  do not - and each level of an identifier computed without the lock is the number of its text or 0,
  if the text was not known then (`Computed`). It gives `Typing` (`TypeOK`) and `Recognised`: a
  publication still matches the identifier of every topic whose filter means its name, although
  its own was computed level by level without the lock while others registered names.
- `WalkInv`: where the shared cursors are. The innermost publication of a thread has called nobody
  ahead of the cursor of topics; each one has called nobody ahead of the cursor of the subscribers of
  its topic, or a later publication of its stack is at the same topic and will leave that cursor at
  the end (`Overtaken`). It gives `CalledOnce` (`AtMostOnce`): however callbacks publish, the cursors they
  move never lead a publication back to a subscriber it has called. (They do lead it past some:
  run `all_invoked`.) It is claimed of the threads that are not `astray`; one that is does not disturb
  them, since it moves the cursors with the mutex locked and nobody else is inside then (`WalkKeeps`).
- `QuietInv`, while callbacks do not call the broker: stacks have one call, and both cursors are where the
  publication left them (`Placed`). It gives `Implements`, the refinement of PubSub (`Delivery`): `Lock`
  begins a publication, each callback delivers one of the subscriptions left, `Finish`
  ends it with none left, and every other step of any thread is a stutter or one
  subscription more or less with nobody publishing. The state functions `Subscribed` and `Delivering`
  are written as operators of the variables (`StateFunctions`), so that each step compares their values
  before and after; `Turn` says that a thread which has the mutex, or can take it, is the only one
  that publishes. Its hypothesis, `Republish[s] = {}` and `Resubscribe[s] = {}` for every subscriber, is what the run
  `broker` has too; without it the refinement is false, as `all_invoked` shows.

**NetBridge_proofs** (assumption: `NetBridgeAssumption`).
- `BridgeIsActiveModule`: the bridge implements ActiveModule.
- `Connected`, `Serving`, `Socketed`: `ConnectedHasClient`, `ServingConnected`, `SessionOnSocket`, for
  any number of callers, commands and failures. None is inductive. `Having` says for each place of
  `mqttThread` what it has by then; to be preserved by EV_ENTRY, which sets `_stat`, it needs
  `EntryOnce`: EV_ENTRY is there once, before the thread is started. That in turn needs the type of
  the queue, taken from `Typing` of ActiveModule_proofs.
- `Typing`: `TypeOK`; the part of the machine comes from `Typing` of ActiveModule_proofs.
- `HasConfiguration`: `Configured`, from `Asked`: a request in the queue or in hand means that a
  configuration was stored.

**TouchManager_proofs** (assumption: `TouchAssumption`).
- `TypeCorrect`: `TypeOK`.
- `LineAttended`, `UpToDate`: `Attended`, `Settled`. The strengthening, while no read has failed: the
  status is what was last read, or what is taken as current, or will be read (`Seen`); what is being
  published is the status or that will be read (`Fresh`); a reading that is not current yet waits
  for the filter (`Filtering`).

**ProximityManager_proofs** (assumption: `HCSR04Assumption`).
- `DeadlineKept`, `DrivenOrQuiet`, `MeasuresTheEcho`: `Deadline`, `Driven`, `Honest`, in one inductive
  invariant. `Quieter` says what `stop` has already taken away at each of its statements, as long as
  no interrupt has undone it; `Runs` that the timer runs only under an echo that will reset it, or
  where a command is about to.
- `Typing`: `TypeOK` of the driver and of the manager together, in four parts that are preserved one
  by one. `SampleType` is what matters: the next slot of the filter is one of its slots.
- `FilteredEvents`: `Filtered`. `Ring` says which of the latest measures each slot holds, by its age, and that
  the rest holds what `start` left there, which is alike to no measure; `RingSample` that one more
  measure keeps it so, at every place of the ring. While `start` is in its loop this is said of the slots
  that it has cleared (`Cleared`), which a turn of the loop makes one more (`RingStep`), although
  measures taken meanwhile fill slots anywhere.

**MQSerialBridge_proofs** (assumption: `SerialAssumption`; there is at least one frame).
- `NeverDeaf`: `Listening`, inductive with "the break timer runs only while the receiver does".
- `FramesWhole`, `NoneLost`: `WireWhole`, `NoneRefused`, for any length of messages. The strengthening:
  the transmitter is busy exactly while its interrupt is on, the buffer then holds what was
  accepted, and it is only filled while the transmitter is free.
- `Typing`: `TypeOK`; the receive buffer does not grow past its size.

*Only model-checked:* all liveness (`TransitionCompletes`, `EffectTakenUp`, `GameEnds`,
`ConfigEnds`, `WaitGoesDark`, `CallsReturn`, `ComesBack`, `Attempted`, `ComesToRest`, `Published`,
`Delivered`, `Returns`), which is outside the prover. Every invariant and every other action property
or refinement that a passing run checks is also a theorem.

## 5. What is left out

- *Of what is modelled:* in ActiveModule the signal branch of `run` (no module runs without a
  mailbox), parent states (never set) and saved parameters. In RGBGame the colour arithmetic
  (`updateEffectConfig`, `wavePoint`), servo angles, texts published, stored configuration,
  `FlagUpdate` and `FlagFinished`, which nothing sets or reads. In the broker `start` (done once,
  before anything), a token list given by the application, `getTopicNameReq`, names that are too
  long, callbacks that unsubscribe (none in the program does), and a callback that calls the broker
  more than once. In List `insertItem`, the backward walk and
  the nodes themselves.
  In NetBridge the stored configuration (FSManager keeps nothing), what is sent, and the inside of
  the vendored client: its send buffer, which publishers and `mqttThread` share without a lock, and
  the filter it keeps a pointer to after it was freed (MQNetBridge.cpp:509). In TouchManager the wait for the driver to be Ready, and calls
  of `job` from a thread of the application (no application makes them). In HCSR04 `config` while
  a measurement is on, `start` before any `config`, `_last_error`. In SerialTerminal the modes of
  reception other than ReceiveAfterBreakTime; in MQSerialBridge TextMode, the subscriptions that
  the configuration topic asks for (they are in MQBroker, as a callback that subscribes), and messages longer than the buffers.
- *Altogether:* the components marked `not_modelled` in `PROJECT.json`, each with its reason.
  ServoManager, PushButton and CyberRibs are created by no application. The register drivers are
  bus I/O; MPR121 appears by what TouchManager sees of it. Most of the repository is vendored
  (mbed OS, easy-connect, Paho MQTT) and is modelled only through its use: queue, mutex, signals,
  timers, interrupts, network calls.

## 6. Plan

Done: ActiveModule; RGBGame and NetBridge refining it; TopicId and TokenTable; CursorList, PubSub
and MQBroker refining it; TouchManager; HCSR04 with ProximityManager; SerialTerminal with
MQSerialBridge; the proofs above.

What could follow, in order: more lemmas that the liveness properties rest on, as theorems (what a
thread that waits in NetBridge or MQSerialBridge is waiting for); `List` with its linked nodes, refining
CursorList; colours of RGBGame (`updateEffectConfig`, `wavePoint`) with
their integer widths and the lock that only one thread takes; TouchManager composed with RGBGame,
whose touches are free input so far.
