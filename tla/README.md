# A formal model of the firefighter rover's firmware

The rover is a CC3220SF board under FreeRTOS. It joins an access point, connects to an
MQTT broker, takes speed, direction and status messages from it, drives three motor
controllers over a serial line, and publishes reports. This directory holds TLA+ modules
translated from the sources in `src/Rover`, TLC configurations that check them on small
instances, and proofs checked by TLAPS.

Run anything with `tlc -config X.cfg M` or `tlapm M_proofs.tla`. `PROJECT.json` maps each
definition to the lines it stands for and lists the runs, hazards, findings and theorems.

## 1. Inventory

| Component | Sources | State | Operations |
|---|---|---|---|
| Message callback | `client_cbs.c` | static level `s` and direction `dir` | speed, direction, status and arm messages, PUBACK, disconnect |
| Motion and motor protocol | `rover_state.c/.h`, `debug.c` | `dir`, `speed`, `send_baud` | `change_speed`, `getSpeed`, `getDirection`, `moveRover`, `roverUART` |
| JSON tokenizer | `jsmn.h` (third party, compiled in) | `pos`, `toknext`, `toksuper`, token array | `jsmn_init`, `jsmn_parse` |
| MQTT client, main task | `main_task.c` | `gApConnectionState`, `gMqttClient`, `ClientId` | boot (`mainThread`), client name from the MAC address, `Mqtt_IF_Connect`, `Mqtt_start`, `MqttClient`, `MqttClient_start` with its subscriptions, receive thread |
| Message queues | `queues.c/.h` | `publishQueue`, `mainQueue`, ten entries each | waiting and interrupt senders, receivers |
| Publish statistics | `statistics.c` | `publishAttempts`, `publishSuccesses` | two increments, a 5 s timer interrupt |
| General report | `test_publish.c` | none | a 500 ms timer interrupt |
| Network interface | `network_if.c/.h` | `g_ulStatus`, `g_usConnectIndex` | start of the driver, connect, disconnect, two event handlers |
| Start-up and hooks | `main.c`, `debug.c` | how far the boot is, stopped or not | creation of the main thread, fatal hooks, `epicFail` |
| JSON texts | `json_parser.c` | none | `parse_string` walks the tokens of an arm command; two texts are formatted |
| Terminal, SPI, board files | `uart_term.c`, `spi.c`, `common.syscfg` | none that matters | printing, pins |

**Threads.** The main task (priority 1) boots the device and then passes statuses on. The
publisher thread (2) creates the client and publishes. The MQTT library's receive thread (2)
runs the callback. `sl_Task` (9) runs the network event handlers. Two timers run in
interrupts. Nothing takes a lock: what threads share goes through the two queues, or is a
word that one writes and others read (`speed`, `dir`, the counters), or is `g_ulStatus`,
which two threads modify.

**Interactions.** broker -> receive thread -> callback -> `moveRover` -> UART -> controllers;
callback -> `mainQueue` -> main task -> `publishQueue` -> publisher -> MQTT library -> broker;
timers -> `publishQueue`; PUBACK -> callback -> `publishSuccesses`; network processor -> events
-> `sl_Task` -> `g_ulStatus` <- main task; main task -> `gApConnectionState` -> publisher. The
one receive thread carries both motion and statuses, so a stop behind a status waits until that
status has found room in `mainQueue`.

**What is hard here.** A drive command is twelve separate writes. The callback that drives the
rover also waits on a bounded queue. Waiting and dropping senders share a queue. Every step of
the boot can fail, some stopping the device and some not. The timers run from the second step of
the boot on. The status word is read, modified and written by two threads. The network processor
goes on with an attempt its caller has given up. Two of the four topics may lose messages.
The list, with lines, is under `hazards` in `PROJECT.json`.

**What makes each component correct.** Motion: the motors execute one whole command, the last
one, and nothing moves unasked. Queues and threads: a status accepted is handed over once and
in order, and nobody waits for ever. Statistics: reports are plausible and never go back.
Network interface: the bits agree with the connection when they are looked at, and every wait
ends. Tokenizer: tokens nest as the brackets do, and the callback sees a command exactly when
there is a complete one. Arm report: each key with its own value, and no value taken for a key.
Start-up: nothing is used before it exists, the network processor is on or off as each call needs
it, a client is made exactly when there is a network, and no two boards whose addresses could be
read share a client name. The whole: the motors do what was published last, and a stop gets through full queues.

## 2. Modules

| Module | Models | Proofs |
|---|---|---|
| `MotorProtocol` | directions, levels, bytes, checksums and tables of `rover_state.c`; the controllers' side of the line | `MotorProtocol_proofs`, lemmas for the two below |
| `Motion` | abstract: whole orders, one after the other, the halt last | |
| `RoverControl` | callback, `moveRover` byte by byte, report interrupt, loss of the broker; implements `Motion` | `RoverControl_proofs` |
| `StatusChannel` | abstract: a bounded channel, each status once and in order | |
| `MessagePipeline` | end of the boot, three threads, two queues, interrupts; implements `StatusChannel` | `MessagePipeline_proofs` |
| `PublishStatistics` | counters, PUBACKs, samples in the queue | `PublishStatistics_proofs` |
| `NetworkIf` | `Mqtt_IF_Connect` against event handlers and network processor | `NetworkIf_proofs` |
| `Startup` | `main` and `mainThread` with timers, client name, network processor; contains `NetworkIf`, ends in a beginning of `MessagePipeline` | `Startup_proofs` |
| `RoverSystem` | `MessagePipeline` and `Motion` over the one receive thread, the broker, the subscriptions | `RoverSystem_proofs` |
| `Jsmn` | the tokenizer, a character a step | `Jsmn_proofs` |
| `ArmReport` | `parse_string` on the tokenizer's result | `Jsmn_proofs` |
| `MC...` | the instances checked by TLC | |

An operator whose comment begins "Fault:" is no part of the model: it is a plausible error of
the operation that follows it, and each property is known to fail when that error is made.

Three refinements tie them together, each an `INSTANCE ... WITH` checked as a property:
`RoverControl` implements `Motion`, `MessagePipeline` implements `StatusChannel`, and `Startup`
implements the beginning of `MessagePipeline`. `RoverSystem` composes at the level of `Motion`,
which `RoverControl` has earned: with twelve bytes in each move the composition would only
repeat what the refinement says.

### RoverControl, MotorProtocol and Motion
`cbDir` is the callback's static `dir`, and `dir`, `speed` the statics of `rover_state.c`
(the header's `static` gives every other file a copy that nothing uses). `sent` counts the
bytes of the current move already written; the receive thread is inside the callback while
`sent < 12`, so it takes no further message. `RecvSpeed`, `RecvSensor`, `RecvMalformedSensor`
and `Disconnect` are the callback's branches up to the first UART write; `WriteBaud` and
`WriteByte` are one `roverUART` each, with a UART that opens. A malformed speed message changes nothing and has no
action. `moveRover` holds bytes and checksum operands in two tables written by hand, and so
does the model (`SentCommand`, `SummedCommand`).
The controllers (`Receive`) are not in the repository. They are taken from what is sent to
them: an address has its top bit set and starts a packet, three more bytes follow, the packet
is obeyed if the seven-bit sum agrees, and nothing is understood before the baud byte.
`LinkLost` is the moment after which the callback gets no further message; `Disconnect` is the
library noticing it. A session that has ended is never opened again, as in the code.
`Motion` knows orders (a command for each motor) and no bytes. The refinement mapping takes the
last of a motor's four bytes for `Serve`, and the speed or direction event for `Take`.

### MessagePipeline and StatusChannel
One variable per thread says where it stands. `ConnectAP`, `MqttStart`, `CreateClient`,
`CreateRxThread`, `ConnectBroker` and `Subscribe` take the outcome as a parameter, each failure
continuing exactly as the code does (publisher exits, stays without a client, stays without a
session). `MainSend` and `UpdateStatus` are the `portMAX_DELAY` senders; `TimerInterrupt`
drops at a full queue. `blockingSend` is the flag given to `MQTTClient_create`: with it false
`MQTTClient_publish` does not wait for its PUBACK. A status is numbered in the order of
acceptance; `accepted` and `handed` record what came in and went out. `StatusChannel` has the
same two variables and is instantiated with `Capacity` = 2 * QueueLength + 3: two full queues
and one message in each of three threads.

### RoverSystem
The receive thread is `rx` of `MessagePipeline` together with `served` of `Motion`: `Idle` means
it is in neither. `inbox` holds what is on the way to the callback, and `told` what the broker
published last. The callback's branches are those of `RoverControl` with a whole order in place
of the writes, and `AcceptStatus` of `MessagePipeline` for a status. `QosOf` reads the table
passed to the subscriptions: `qos` has values for two of four topics, and C makes the others 0,
so direction and speed messages can be lost (`Lose`). `CLEAN_SESSION` is defined in the code but
used nowhere; in any case what was on the way when the session ended has no callback to reach
(`LoseSession`). The report of one timer stands for both: they differ only in their text, and
`MessagePipeline` has both.

### Startup
`boot` points into `BootOrder`, the calls of `mainThread` in their order; `At` and `ProceedIf` are
"this call is next" and "it succeeds, or `epicFail` stops the device". Errors that the code ignores
(`sl_NetCfgGet`, the creation of the publisher) do not stop it. `xQueueCreate` is not checked
either, but FreeRTOS calls `vApplicationMallocFailedHook` of `main.c` when it is configured to;
that configuration is external and is assumed. An address that could not be read leaves the array
of `SetClientIdNamefromMacAddress` unwritten: the name is then that of any board (`Macs`), and
nothing is claimed of it. The joining of the access point is the whole of `NetworkIf`, instantiated
without a stored profile (`StoredProfiles`), with the network processor's on and off state added:
`JoinStart` is either start of `Network_IF_InitDriver`, refused by a processor that is on, and
`JoinStop` the stop between them, which may fail unnoticed. The timers interrupt from their start
on, and `publishQueue` fills long before anyone reads it.

### PublishStatistics
The publisher's call and its count are two steps, since the PUBACK can come between them. A
sample taken by the interrupt travels through `publishQueue` with other messages (`NoSample`)
and becomes `reported` when published. A publication that fails is counted as an attempt too,
as the code does not look at the result.

### NetworkIf
`status` is the set of bits of `g_ulStatus` (the two that the station role uses). Each read and
each clear by the main task is a step of its own; a clear is a load and a store, since
`&= ~bit` on a volatile word compiles to that. Handlers run to their end without the main task
(priority 9 over 1), so a handler is one step. The change of the role is three calls and three
steps, `SetMode`, `StopDriver` and `Restart`; the result of the stop is not looked at. The network
processor is external: it acquires an address, may lose the access point and try again or not, and
queues one event for each. IPv4 and IPv6 addresses set the same bit and are one event. A refused
`sl_WlanConnect` leaves the connection as it was, an accepted one ends it first. `profile` says
whether the processor has an access point in its memory, which it then joins as soon as it is
started as a station; both cases are initial states. With a profile the first call of
`Network_IF_DisconnectFromAP` may find a connection, and the clears after it race with the handlers.
`BitsTrackLink`, `SpinIsAnswered` and the return of the joining in `Terminates` do not hold then and
are stated for a processor without one; the rest is stated for both. Which of the two a rover has is
decided outside the repository (see section 4).

### Jsmn
The parser as compiled here: no `JSMN_STRICT`, no `JSMN_PARENT_LINKS`, a token array given.
`mode` tells which of the three loops is running. A character is one of the classes that the
code's switches tell apart. Positions are offsets from 0 as in C, tokens are numbered from 1.
`Accepted` is the callback's own test of a payload. `Commands` are the texts that are one object
of one pair: `IsCommand` describes them by what stands at each position and not by the parser's
rules, escapes as a set of positions. `CutCommands` are their beginnings. Two of the callback's facts are worth
knowing when reading it: the tokenizer accepts several values in a row, so three tokens do not
mean that the third lies inside the object, and the callback compares only the beginning of
the value.

### ArmReport
`Visited` is the sequence of tokens at which the loop of `parse_string` stops: from the second
on, one further after an unknown key and two further after a known one. Names are compared as
whole slices, as `jsoneq` does. What is printed for each is left out.

## 3. Runs

| Run | Instance | Shows |
|---|---|---|
| `MCRoverControl.cfg` | levels 0, 5 and an invalid one; all five movements | `ImplementsMotion`: twelve writes act as one whole order, every order taken is carried out, and none follows the halt. `CommandInForce`, `NothingMisread`: the motors execute the last one. `StillWithoutDirection`, `OnlyDirectionStarts`: before any direction and after a stop no speed message sets the rover going (with level 0 and a direction in force one does). `LostLinkStops`: it comes to rest when the link is lost. `ReportTruth`: a report tells the command of every motor that the move under way has served, which between moves is all of them |
| `MCMessagePipeline.cfg` | queues of 2, 8 statuses | `NothingLost`, `SomeoneDrains`, `BacklogBounded`, `AcceptedIsHanded`, `ReceiveThreadReturns`, refinement of `StatusChannel` |
| `MCPublishStatistics.cfg` | queue of 2, 4 publications | `SuccessesCovered`, `ReportPlausible`, `ReportsNeverDecrease` |
| `MCNetworkIf.cfg` | 2 polls, 2 losses, with and without a stored profile | `BothBitsAtOnce`; without a profile `BitsTrackLink` and `SpinIsAnswered`. `Terminates`: the joining hangs only before the processor is a station, where `LOOP_FOREVER` is meant, and without a profile returns from everything later |
| `MCRoverSystem.cfg` | queues of 1, 3 statuses, 2 messages on the way; stop, forward and a speed | `ObeysLastWord`: the motors do what was published last, whatever was lost at QoS 0 before. `StopCarriesThrough`: a stop behind statuses gets through two full queues. `LossStopsRover`: the end of the session stops the rover for good |
| `MCStartup.cfg` | queue of 1, 2 polls, 1 loss, 3 boards | `ImplementsPipelineStart`: no interrupt before its queue, no publisher before the result. `ClientFollowsResult`, `ClientIdTellsBoard`. `DeviceReady`: every driver call but a third start finds the processor as it needs it, and joining succeeds only with it on |
| `MCJsmn.cfg` | 5 tokens; every text of up to 5 brackets, commas and primitives, every text of up to 4 structural characters, every string of up to 4 characters, 28 commands (all that are among its texts) and all their prefixes, arm commands of two pairs | `TokensNest`, `BracketsPaired`, `CommandsAccepted`, `TruncatedIsPartial`, `FlatCommandReported`, `Terminates` |

**Why these bounds.** Every direction and every kind of level occurs; the initial speed byte,
which no level of the instance sends, is in it from the start. Eight statuses are one more than
two queues and three threads can hold, so `BacklogBounded` is met at its limit; a queue of two
is full, empty and in between. Two polls give a poll after which another follows and a last
one; two losses let an attempt fail, recover and fail again. In the composition three statuses
fill both queues of one and leave one in the hands of a waiting thread, which is the situation
in which a stop could be held up for ever; two messages on the way put a stop behind a status, or
one order behind another. The three boards of `MCStartup` have every hexadecimal digit in both
places of a byte. The callback gives the tokenizer four tokens and `parse_string` 128; five are what an
object of two pairs needs, and a text of five open brackets and a string overflows them. What the bounds cannot show the theorems do: they hold
for every queue length, number of polls and losses, and set of messages.

**Deadlock** is checked except in `MCNetworkIf` (the procedure returns, or hangs in
`LOOP_FOREVER`), `MCStartup` (`epicFail` and the hooks stop the device) and `MCJsmn` (the parser
returns).

**Fairness.** `RoverControl`: a blocking one-byte write returns, and the library reports a lost
broker; no message need ever come. (The code sets no keep-alive time, so that report rests on
the library's default, which is not in the repository.) `RoverSystem`: the fairness of
`MessagePipeline`, and the same two facts about the receive thread, which also takes up what has
arrived. `Motion`: an order taken is carried out. `MessagePipeline`: threads run when they
can. `MainSend` has strong fairness, because interrupts could take each free place first: the
publisher's higher priority empties the queue before the main task runs again, and timers of
500 ms and 5 s leave long gaps in which a sender woken by free room goes on. Interrupts,
arriving messages and losses have none. `NetworkIf`: main task and `sl_Task` run; the radio owes
nothing. `Jsmn`: a function goes on. `PublishStatistics` and `Startup` state safety only and need
none.

## 4. Where code and documents disagree

| Run | Document | Code |
|---|---|---|
| `BrokerLoss.cfg` | `README.md:143`, MQTT is restarted after a disconnect | the callback stops the rover, nothing connects again |
| `ApLost.cfg` | `README.md:139`, a failed access point is tried again | `Mqtt_IF_Connect` is called once |
| `AttemptCalledOff.cfg` | `network_if.c:608`, the previous attempt is disconnected | nothing is done while the connection bit is clear; the attempt succeeds later |
| `BitMeansConnected.cfg` | `network_if.h:92-93`, a set bit means a connection | a clear's store brings back a bit that the handler cleared after the load: after a failed attempt (line 612), and with a stored profile already before the first (line 576), which TLC finds sooner |
| `ArmKeys.cfg` | `json_parser.c:46`, the loop runs over all keys of the root object | the value behind an unknown key is looked at as the next key |

Seen and not a run of its own: a comment of `Network_IF_InitDriver` (`network_if.c:440-445`) says that
the device is brought to its default state and that stored profiles are lost. The call under it is
`sl_Start`, and nothing deletes a profile, so `NetworkIf` has both cases.

Seen and not modelled: `Network_IF_IpConfigGet` writes the DNS address over the gateway and
leaves `pulDNSServer` unset (`network_if.c:699`; both are only printed or unused).

## 5. Proofs

Every theorem has the form `Spec => []P` or `Spec => [][A]_vars` (or, for a refinement, both
with the abstract module's initial predicate; or, for a bound on the number of steps, with what it
is at the start) and rests on one inductive invariant of its
`_proofs` module: `Init` implies it, each action preserves it, it implies the property. Each
invariant was first checked by TLC on the instance of the corresponding run.

**Assumptions** are the named ones of the modules, and nothing else: `QueueLength`,
`ConnectWait` (the poll count) and `MaxInbox` are positive; `MaxStatus`, `MaxDrops` and
`NumTokens` are natural numbers, as is `MaxAttempts`; the boards of `Startup` have addresses of six bytes; the texts
of `Jsmn` are finite sequences of its classes of characters. Digits, words, keys and texts are
otherwise arbitrary sets.

* **MotorProtocol_proofs.** Lemmas, no theorem: every operand and checksum is below 128 and every address
  is not, the two tables of `moveRover` agree, what the receiver makes of a packet byte by byte,
  and that a level survives the way through `change_speed` and `getSpeed`.
* **RoverControl_proofs.** `CommandInForce` speaks only of the moments between moves. The
  invariant says for every point of a move which motors already have their new command
  (`Served`) and which bytes of the current packet the controllers hold (`HeldPrefix`), and that
  before the baud byte the controllers are untouched (`Unannounced`). Proved: type
  correctness, `NothingMisread`, `CommandInForce`, `StillWithoutDirection`, `OnlyDirectionStarts`,
  `ReportTruth` (for any point of a move, from `Served`); and `ImplementsMotionSafety`, that every step is one of `Motion` or invisible to it:
  the fourth byte of a packet is `Serve`, the other three and the baud byte are stutters.
  `ClosedSessionStands` and `NoTornCommand` are consequences stated for the reader.
* **MessagePipeline_proofs.** `NothingLost` is not inductive, since it does not say where the
  statuses in transit are. The invariant cuts 1..`accepted` into intervals: handed over, in the
  publisher's hands, in `publishQueue`, with the main task, in `mainQueue`, with the receive
  thread. In `publishQueue` statuses ascend with the interrupts' messages between them. From
  it follow `NothingLost`, `BacklogBounded`, `SomeoneDrains` and the safety part of the
  refinement of `StatusChannel`. Two more results are what `AcceptedIsHanded` and
  `ReceiveThreadReturns` need besides fairness. `NoCircularWait`: while a status is on its way some
  thread can go on (`ThreadCanGo` lists the guards): it lies in one of the intervals, and the thread
  at the end of the chain, the publisher, waits for nobody. `WorkIsFinite`: `Work` weighs each
  message by the steps the threads still have to take for it, so every step of theirs lowers it,
  and only a status or an interrupt raises it.
* **RoverSystem_proofs.** A step of the system is a step of `MessagePipeline` or leaves its
  variables alone, so the pipeline's invariant is carried over by its own lemmas
  (`StatusesUndisturbed`). To it are added `Followed`: of each topic, what was published last was lost, is the
  last message of that topic in the inbox, or, if there is none, is what the callback has taken
  up; and `OrderInForce`: the motors served so far execute the callback's direction and speed, or the halt.
  Proved: type correctness, `ObeysLastWord`, and `HaltStands`, the half of `LossStopsRover`
  that needs no fairness: a halt that has been served is never undone. `NothingStuck` and
  `SystemWorkIsFinite` carry the two results on waiting over to the system: while anything is in the
  inbox, or the halt is due, the receive thread or one it waits for can go on, and no thread goes
  round for ever. They need `DeliveryInv`: messages come only to a subscriber whose receive thread
  runs, and those on the way and those accepted together keep to `MaxStatus`, so that this bound of
  the model never holds up a message.
* **NetworkIf_proofs.** With or without a stored profile, `Control` says where the main task can be
  with which count of polls and which result. Type correctness and `AttemptIsBounded` follow from
  it. `BothBitsAtOnce` needs besides that an address is reported only after an association
  (`Ordered`), so that at the second test of the decision it cannot come alone (`AddressNotAlone`).
  The other properties are about a processor without a profile (`IInv`). Then, until it gives up,
  the main task changes nothing in the status word (the first pair of clears finds it empty,
  `Untouched`), so word and pending events together describe the connection (`Tracking`, by
  induction along the events). After the clears of a failed attempt this no longer holds, which is
  what `BitMeansConnected` runs into. Proved: type correctness, `BitsTrackLink`, `SpinIsAnswered`,
  `BothBitsAtOnce`. For `Terminates`: `AttemptIsBounded`, that the main task takes at most 2 *
  `ConnectWait` + 21 steps, which nothing the radio or a handler does adds to, and `SpinIsShort`,
  that in its only wait without a time limit each step leaves fewer events, one of which ends it.
* **Startup_proofs.** What exists, what the network processor is doing and which result is known
  are each read off how far the boot has got (`Made`, `DeviceKnown`, `Progress`, `ResultKnown`). The joining keeps
  the invariant of `NetworkIf_proofs`, whose lemmas are instantiated for it. Proved: type
  correctness, `ClientFollowsResult`, `ClientIdTellsBoard` (two hexadecimal digits determine
  a byte), `DeviceReady`, `BootedLinkTracked`, and the whole of `ImplementsPipelineStart`, which
  states no fairness.
* **PublishStatistics_proofs.** Samples in the queue ascend towards the counters and each is
  plausible when taken. Proved: type correctness, `SuccessesCovered`, `ReportPlausible`,
  `ReportsNeverDecrease`.
* **Jsmn_proofs.** The invariant divides the text at `Covered`, the position up to which the tokens tell
  all: every token lies before it (`TokensBehind`), every bracket before it begins or ends a
  container or lies in a string or a primitive (`Accounted`), and every container begins and ends with a
  bracket of its kind (`TokensBracketed`). The parser's choice is the innermost open token, so the proofs need
  that a bounded set has a maximum; it is shown from the well-foundedness of < (`LeastOf`,
  `MaxIn`), without induction over data. Proved: type correctness with the bounds of text and
  token array, `TokensNest`, `BracketsPaired`, and `NeverPartial`: what the callback accepts is an
  object whose closing bracket has been read, whatever the text. `CommandsAccepted` and
  `TruncatedIsPartial` are proved together, for a command of any length, escapes included, of which
  the text parsed is a beginning: `Reading` follows the parser through the parts of the command, says
  how many tokens there are and which of them are open, and inside a string that the parser
  stands outside every escape. If the text is the whole command its end is reached with key
  and value in full (`EveryCommandAccepted`); if it is shorter, whatever part it ends in leaves a
  token open (`EveryCutIsPartial`). `EveryStepProgresses` bounds the steps by 4 * Len(js) + 2, which is
  what `Terminates` needs besides fairness: the search for the innermost open token does not count,
  as in the model it is no loop. `FlatCommandReported` is proved from the
  same invariant: `VisitedIn` is defined by recursion, but where all keys are known its equation
  has an explicit solution, and a least counterexample shows that it has only one.

**Model-checked only.** Liveness under fairness, which is beyond the prover: `LostLinkStops`,
`AcceptedIsHanded`, `ReceiveThreadReturns`, `StopCarriesThrough`, `LossStopsRover`, both
`Terminates`, and the liveness part of `ImplementsStatusChannel` and `ImplementsMotion`. For the
pipeline and the system the theorems above prove the two facts such an argument rests on, that
some step is possible and that steps do not go on for ever; for the network interface and the
tokenizer, the second.
`ThreadCanGo` and `ReceiverCanGo` list the guards of the actions as the modules write them, since
ENABLED is beyond the prover too; the step from there to `~>` is left to TLC. Every invariant that a
passing run checks is a theorem. The five findings are counterexamples.

## 6. Not modelled

Without a caller: `updateRoverState`, `MQTT_GetDirection`, `Mqtt_Stop`, `Mqtt_ClientStop` and with
them `stopPublishThread`, `Network_IF_DeInitDriver`, `Network_IF_GetHostIP`, the Set and Unset calls
of the client, the line editor of `uart_term.c` (`GetCmd`, `TrimSpace`), `SPI_Transfer`. The
access-point role is never requested (`ROLE_STA` is the only argument). The tick, sleep and idle
hooks and `dbgOutputLoc` are empty. `snprintf` texts and everything printed to the terminal have
no effect on the rest. `roverUART` does not look whether `UART_open` succeeds: on failure it writes to
a null handle, which the driver does not define, and tries to open it again at the next byte. The
model begins after a successful opening. Files generated from `common.syscfg` are not in the repository.

## 7. Plan

Done, in this order: motion (the most important behaviour), the pipeline with its abstract
channel, the network interface, the statistics, the tokenizer, proofs of all but the last; then
the abstract motion and its refinement, the composition `RoverSystem`, the boot joined to
`NetworkIf` and `MessagePipeline`, and the walk over arm commands.

After that the proofs: `ReportTruth` and the safety part of `ImplementsMotion`, the boot with its
refinement, the composition, the tokenizer and the walk over its tokens.

Last, `CommandsAccepted` and `TruncatedIsPartial` for all commands instead of listed ones, and the
absence of deadlock and livelock behind the liveness properties.

To do: the liveness properties themselves, should the prover come to support ENABLED.
