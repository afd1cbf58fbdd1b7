# Verification of echo-pyramid-components

TLA+ specifications, TLC runs and TLAPS proofs for the ESPHome components of
this repository. Paths are relative to `src/components/` unless they start with
`src/`.

    tlc -workers 2 -config send.cfg MCEspNow.tla      # a run
    tlapm EspNowProofs.tla                            # the proofs

## 1. The system

ESPHome calls every component from one thread, the *main loop*: `setup()` once,
then `loop()` or `update()` again and again, unless the component has been
*marked failed*. Automations (the YAML's actions) and the handlers and callbacks
that components register with each other run on the same thread, inside these
calls. The only other thread is the *Wi-Fi task* of ESP-IDF, which calls the
ESP-NOW component's `on_data_received()` and `on_send_report()`.

| component | state it keeps | operations | talks to |
|---|---|---|---|
| ESP-NOW (`espnow/espnow_component.*`) | `state_`, failed flag, `peers_`, receive queue and pool, send queue and pool, `current_send_packet_`, channel | `setup`, `enable`, `disable`, `apply_wifi_channel`, `add_peer`, `del_peer`, `send`, `loop`; driver callbacks `on_data_received`, `on_send_report` | the ESP-NOW driver (calls and callbacks), the Wi-Fi component, registered handlers, send callbacks |
| ESP-NOW automations (`espnow/automation.h`) | per action: `num_running_`, lists `on_sent` and `on_error`, flags | `play_complex`, the send callback, `stop`; triggers' `on_received`, `on_broadcasted`, `on_unknown_peer` | ESP-NOW component, automations |
| Code generation (`espnow/__init__.py`) | none | validation, `to_code` | the fields of the generated components |
| SwitchC6 controller and switch (`espnow/switch_c6_*`) | `broadcast_peer_added_`, channel, published switch state | `send_*`, `parse_data`, `write_state` | ESP-NOW component |
| Packet transport (`espnow/packet_transport`) | buffer | `send_packet`, `on_received`, `on_broadcasted` | ESP-NOW component, ESPHome's packet transport |
| PyramidTouch (`pyramidtouch`) | last reading of four pads, first pad and time of a swipe on each side | `update` (poll) | I2C device, sensors |
| PyramidRGB (`pyramidrgb`) | colours per channel, brightness, scales | `setup`, `set_channel_color`, `set_channel_color_component`, `set_strip_brightness`, `map_level` | I2C device, light outputs |
| LP5562 (`lp5562`) | the device's registers | `setup`, brightness, current, LED mapping, engine mode | I2C device, light outputs |
| SI5351, AW87559 | `setup_complete_`, failed flag | `setup` | I2C device |
| Voice assistant example (`src/examples/HomeAssistantVoice.yaml`) | phase, mute switch, timers | scripts and triggers | ESPHome's voice components |

What is hard, and the properties that answer it:

* **ESP-NOW, resources.** Packets travel between a pool, the Wi-Fi task, a queue
  and the loop; `push()`'s result is ignored (`espnow_component.cpp:89`). Correct
  means: no packet is released twice, on any path, with application code
  calling back in the middle of `loop()`, and none leaks but those that a full queue
  does not take, which are at most what the pool gives beyond it.
* **ESP-NOW, attribution.** A driver report is applied to whatever packet is
  current, without a look at its address (`:321`). Correct means: it is always the
  report of that packet's own frame.
* **ESP-NOW, progress.** The sender waits for one report. When it is dropped
  (`:74`) or the driver is shut down (`:232`) it waits for ever.
* **The channel.** Several clients tune one radio, the driver may refuse (`:258`), and a
  frame names the channel that its sender believes in.
* **ESP-NOW, two tables of peers.** The driver's list and `peers_` must agree for
  `enable()` to restore what was paired.
* **Automations.** Immediate and late errors, waiting or not, an action list that
  is stopped or replayed while a report is on its way.
* **Handlers.** The order of the chain, and who may stop it.
* **PyramidTouch.** Failed reads taken for a released pad, two pads in one poll,
  the window's limit, 32-bit time.
* **LP5562, PyramidRGB, SI5351, AW87559.** A sequence of I2C writes of which one
  fails; values used after a failed read; caches ahead of the device.

`PROJECT.json` lists every component with its status and every hazard at its line.

## 2. Modules

| module | contents |
|---|---|
| `EspNow` | the ESP-NOW component, its driver and the Wi-Fi task; its properties |
| `SendService` | what `send()` promises callers, and nothing of how |
| `SendReports` | of that, what one caller sees: `EspNow` implements it |
| `MCEspNow` | model values, destinations and peer lists for TLC |
| `EspNowProofs` | the theorems on `EspNow`, after lemmas on sequences (elements, tails, `RemoveFirst`) |
| `SendAction` | the automation action `espnow.send` over what `SendService` promises |
| `SendActionProofs` | its theorems |
| `PyramidTouch` | the touch component: polls, failed reads, swipes, a clock that wraps |
| `PyramidTouchProofs` | its theorems |
| `LP5562` | the LED driver: `setup()` transaction by transaction, its operations, failing reads and writes |
| `MCLP5562`, `LP5562Proofs` | its constants for TLC, its theorems |
| `I2cSetup` | the clock generator and the amplifier: two set-ups by register writes |
| `I2cSetupProofs` | its theorems |
| `PyramidRGB` | the LED strips: components, outputs and the controller's registers |
| `MCPyramidRGB`, `PyramidRGBProofs` | its constants for TLC, its theorems |
| `Dispatch` | the chains of handlers, and who hears a packet |
| `MCDispatch`, `DispatchProofs` | its constants for TLC, its theorems |
| `SwitchC6` | the SwitchC6 switch and controller and the transport over one radio |
| `MCSwitchC6`, `SwitchC6Proofs` | its constants for TLC, its theorems |

`Dispatch` and `SwitchC6` look at the ESP-NOW component from two sides that
`EspNow` leaves open: what the handlers of a packet do, and what the channel is.
They keep of the component what these questions need, and do not repeat pools,
queues and reports, which `EspNow` has. `SendAction` has the component's answers as its
environment: accepted packets are reported once each, in the order of the calls, which is
what `SendReports` says and `EspNow` implements (`ToldInOrder`).

### EspNow and the code

The main thread is sequential, so a call of the API is one action. `loop()` is
cut where application code runs inside it; `pc` says where it stands:

| `pc` | place in `espnow_component.cpp` |
|---|---|
| `boot` | before `setup()` |
| `idle` | outside `loop()`; any API call |
| `drain` | 273, 333: about to take a packet from the receive queue |
| `unknown` | 280-285: in the unknown-peer handlers; any API call |
| `deliver` | 301-311: in the handlers; any API call |
| `sent` | 322: in a send callback; any API call |
| `release` | 332: about to release the packet |
| `tx` | 338: about to call `send_()` |
| `unsent` | 410: in a send callback, with an error; any API call |
| `aborted` | 322 with an empty callback: the program is gone |

At every place marked "any API call" the actions `Enable`, `Disable`, `AddPeer`,
`DelPeer`, `Send`, `ApplyWifiChannel` and `WifiToggle` are enabled, as far as the
constant `UserOps` names them: that is what a handler or callback might do.
The Wi-Fi task's callbacks are cut between `allocate()` and `push()`, and run
between any two steps of the main thread.

A *request* is one call of `send()`, with a fixed destination `Dst[r]`. The queue
of send packets holds requests; `current` is `current_send_packet_`.
`outcome[r]` and `verdict[r]` are history: how the call has ended for the caller,
and what became of its frame in the driver: "lost" when nobody will tell, "unqueued" when
`send()` accepted the request and its full queue did not take it. The
report of a frame carries the request only so that the properties can say whose
report it is; no action of the main thread reads it.

A queue holds `RxQueueCap` or `TxQueueCap` packets and a pool gives `RxPoolSize` or
`TxPoolSize`; the two need not agree. ESPHome's `LockFreeQueue` and `EventPool` are not in
this repository; both are instantiated with 16 (`espnow_component.h:165-169`), and a ring
buffer of 16 slots that keeps one empty holds 15. `push()` on a full queue (`HasRoom` is
false) does nothing, its caller goes on as if it had, and the packet is in nobody's hands:
`rxLeaked` and `txLeaked` count those, a report in one is lost, a request in one is
forgotten. What the pool itself keeps its free packets in is not modelled.

Left to nondeterminism: which driver call fails (`Enable_`'s stage, `esp_now_send`,
adding a peer), whether a pool allocates before it is exhausted (`OutOfMemory`),
what a handler answers, whether the address and size given to `send()` are
acceptable. A `false` return of the driver that changes nothing needs no step.
`esp_now_deinit()` is taken to succeed (its failure is only logged).

Abstracted: payloads, RSSI, the channel number, log lines, the drop counters
(only logged), momentary warnings, the wake-up of the main loop.

### SendAction and the code

A *run* is one passage of an automation through the action; runs overlap when
the automation is triggered again, and share `num_running_` (`running`) and the two
lists. `play_complex()` is `PlayAccepted` or `PlayRefused`, after what `send()` returns;
the callback is `Callback`, called at once on a refusal or by `Report` later, in the
order of the calls, which is what `InOrder` proves of the component. A run
whose list plays is in phase `on_sent` or `on_error` until `ListDone`, when the action that
`add_on_sent()` or `add_on_error()` appended runs. `Stop` is the automation being stopped
from outside (`stop_complex()`), for instance by the restart of a script.
`PlayNext` and `StopComplex` are ESPHome's `Action::play_next_()` (continue if
`num_running_` is positive, and count down) and `stop_complex()` (if it is positive,
call `stop()` and reset it). `continued`, `stopped` and `answer` are history.

Abstracted: the actions in the lists (they take time or do not), the packet,
and what the automation does after it is continued.

### PyramidTouch and the code

`Poll(gap, reading)` is the whole of `update()`: it runs on the main thread without
a break. `reading` says of every pad whether it was read as free, as touched, or not
at all; `gap` is the time since the last poll. `first` and `since` hold
`left_swipe_first_` and `right_swipe_first_`, `left_swipe_time_ms_` and `right_swipe_time_ms_`, by side,
for the code of the two sides differs in the pads and codes only. `now` is `millis()`
modulo `Word`, which is 2^32 in the code; `Elapsed` is unsigned subtraction.
`shown` is what the touch sensors published last. `age` and `alone` are history:
the real time since a pad was pressed, capped just above the window, and the
pad that opened a touch and is still the only one of its side.

`TimeAssumption` bounds the time between polls: the timeout is at most 2000 ms
(`pyramidtouch/sensor.py:29`), and a device that polls every 50 ms does not stand still for
49 days. Without it the difference of two 32-bit readings says nothing.

### LP5562 and the code

`lpPc` names the bus transaction `setup()` has come to; ESPHome runs it once, in one
go, but the ESP32 may restart between two transactions (`Restart`), and the chip then
keeps its registers. A transaction that fails may have reached the chip or not.
`LP5562_ERROR_CHECK` ends `setup()` and marks the component failed; `LP5562_WARN_CHECK`
only logs. The LED map and the mode register are bytes, as the sets of their bits, and
`WithField`, `ShiftLeft`, `ChannelShift`, `EngineShift`, `EverySource` and `EveryMode` are the masks
and shifts of the code. Where the chip has its fields (`SourceBit`, `ModeBit`, `FieldAt`) is stated
apart from them, and the properties compare the two. Of `REG_ENABLE` and `REG_CONFIG` only
the bits with a meaning are kept, by name. `config_val`, `current_mapping`
and `current_op_mode` hold anything when nothing was read into them (`WriteConfig`,
`AfterRead`), where `Garbage` bounds what TLC tries. The four currents of `setup()` are four
transactions (`SetupCurrent`). Engines above 2 and sources and modes above 3 return at once. The operations run before `setup()`
as well: an output's `write_state()` does not ask whether its parent is set up or failed.
`lpSource`, `lpMode` (what was last asked for) and `lpGarbled` are history.

### I2cSetup and the code

Each `setup()` is a sequence of writes, one step each (`Si5351Writes`, `Aw87559Writes`). A
write that fails leaves the registers as they were, or written, or, if it has
several bytes, torn; the component is then marked failed for this boot. A restart
begins anew with the registers as they are. Register values are abstracted to what
`setup()` wants of them. Resetting the PLL is a command; `pll` says whether it was
given since the multisynth parameters were last written.

### PyramidRGB and the code

`set_channel_color()` is `Paint` and then one `WriteLed` for each LED: nothing else of
the program runs in between, but a write may fail or break off within the LED's bytes,
and the ESP32 may restart. `led` is the controller's memory by register address, so
that `Base`, `HardwareIndex` and `Register` are what decides which LED a write hits; the
properties compare it with the layout that the repository's `src/README.md:58-61` gives. Levels are
fractions `level / Full`; `Curve` stands for the power function of the dimming, of which only
its range is used; currents are integers, as only their quotient matters.
`asked`, `reported` and `clean` are history. `OwnerAssumption`: each channel belongs to
one component, as in the example; the code does not check it.

### Dispatch and the code

`Take` is `loop()` popping a received packet, `Call` one turn of the loop over the chain
`stage`, `UnknownDone` and `Done` the ends of the chains. Handlers are the triggers that
the generated code registers before anything is set up (`TriggerChain`), the transport
(`TransportSetup`, in its `setup()`), and a controller, registered by the user's call of
`register_handlers()`, at any time and again (`RegisterController`). An automation may pair
or delete the packet's source. `ran` is history: the visits (handler, chain, place) on which
an automation or the transport's `process_()` ran, in their order; `unknown` and `reached` tell
which chains the packet was given to. `"nobody"` stands for the source of no packet. A text is its list of fields between semicolons,
trimmed, since all `parse_data()` decides on is whether there are two and the first is not
empty. Registration from within a handler would change the vector that `loop()` walks
(undefined behaviour); no handler of the repository does it, and it is excluded.

### SwitchC6 and the code

One ESP-NOW component with its channel (`wifi_channel_` and the radio's own), its peers,
its send queue and what the driver has on the air, shared by a switch, a controller and
the transport. The clients run before the component's `setup()` (`pc` is `boot`: automations
on boot, and switches that restore their state), between calls of `loop()`, and inside
both kinds of handlers (`unknown`, whose packet's source is `inHand`, and `handler`).
`Boot` is `setup()`, with `enable_on_boot_` or without; the configured peers are listed from the start.
`WriteState` is the whole of `write_state()`; `ControllerSend` the three commands, which differ
in their text; `TransportSend` sends with a callback, the others without, so that their
report stops the program (`LoopReport`; the first finding below), and the ESP32 restarts.
`WifiChanges` is the Wi-Fi component, which enables, disables or moves the radio between
any two steps. `Transmit` has `add_peer()` and the pairing inside `send()`, either of which
the driver may refuse. `Tuned` is what `apply_wifi_channel()` does to the radio: nothing when the
component is disabled, the Wi-Fi enabled or the radio off, and nothing when the driver
refuses the channel (it accepts `Tunable`), which the code does not notice; a channel
that `set_channel()` is given may be any byte. A report that finds the receive pool empty is
dropped (`ReportSent`), and a frame that finds the queue full leaks (`Push`, `leaked`).
A frame carries the channel its text names, 0 for none;
`moved`, `refused` and the channel in `onAir` are history.

## 3. Runs

The runs of `EspNow` use `MCEspNow`, the others their own module or its `MC` module.
Bounds of `EspNow`: `Requests` (each is sent at most once), `MaxFrames` (frames received), the
pool sizes; of `SendAction`: `Runs`; of `PyramidTouch`: `MaxGap` and `Fingers` (the pads ever
touched); of `LP5562`: `UserChannels`, `UserEngines`, `Levels`, `Sources`, `Modes`, `Garbage`; of
`PyramidRGB`: `Levels`, `UsedChannels`, `UsedColours`, `Palette`, `Brightnesses`; of `Dispatch`: `Texts`,
`MaxRegistered`; of `SwitchC6`: `UserChannels`, `Commands`, `MaxReceived`.

| run | question | result |
|---|---|---|
| `send` | 3 requests, 2 peers, a receive pool of 2 with a queue for 1 and a send pool of 3 with a queue for 2, both of which may refuse early, 2 frames, enable and disable: packets conserved, leaks bounded, reports attributed, service implemented, callers told in order | holds (1,227,672 states) |
| `live` | every API call, auto-pairing, a broadcast, a request to the device itself, one without a callback, disabled at boot, two packets and a queue for one on either side, fairness: peer tables consistent, requests answered, packets returned | holds (575,674 states) |
| `actions` | 3 overlapping runs, both lists, errors stop, stops from outside: the count is exact until something stops and never negative, nothing continues twice or after an error, nothing is lost | holds (1,349 states) |
| `touch` | pads 1, 3 and 4, failing reads, a clock of 8 ticks, window 3: swipes genuine, none missed | holds (209,616 states) |
| `lp5562` | two channels, two engines and one too many, a valid and an invalid source and mode, failing reads and writes, restarts: the shifts and masks hit their fields and no other, up means enabled | holds (314,636 states) |
| `i2c_setup` | both devices, failing and torn writes, restarts: outputs on only when configured | holds (1,125 states) |
| `rgb` | the example's two components, two LEDs a group, two colours, levels 0, within and beyond the scale, components and brightness, failing and torn writes: what is reported is shown | holds (1,296,744 states) |
| `dispatch` | four automations, the transport and up to two controllers, registered at any time, four texts from two devices: who hears what | holds (6,037 states) |
| `clients` | a switch on channel 1, everybody else on 13, which the driver refuses the component (the Wi-Fi may go there), a pool of 2, disable and delete: frames on their channel, states published | holds (3,682,976 states) |
| `empty_callback` | is an empty callback ever called? | yes |
| `report_dropped` | is every accepted request answered, when 2 received frames have exhausted a pool of 2? | no |
| `lp_config` | does the driver's configuration register hold what was configured? | no |

Why the bounds are enough. Two requests for one peer are what it takes for one's
report to be mistaken for the other's; a third lets one request queue while another is
in its callback, and finds the queue for two full when nothing was sent yet. A receive
pool of two with two frames from the air reaches the exhausted pool and the report that is
dropped; its queue for one is the smallest that loses a packet, a frame or a report, and
goes on with one packet. In `live` the send side is so, too; `report_dropped` has queues that hold what
their pools give, and a report queued behind or in front of a frame. The theorems below remove the bounds for
every safety property of every passing run.

Three runs of the automation are what it takes for one to be in its list, one to
wait and one to be refused. `actions` has errors stop the automation, so that both
`play_next_()` and `stop_complex()` are reached, from a callback, from a list and from outside;
`ContinuesOnce` and `RunningCounts` are proved for the other settings.
Both pads of one side show every history a side can have; a pad of the other side
shows that the two do not disturb each other. The clock wraps at every point of a
swipe, and the time between two presses, over one or several polls, is less than,
exactly or more than the window.

In `lp5562`, two channels and two engines show a field and its neighbour; 4 is the first
source and mode that is no longer valid; one garbage value other than those the
operations ask for suffices, for the fields are only compared. In `rgb`, channels of both
strips are painted, one by calls and two by a boot fill; `Curve` and the currents reach levels
at or below 0, within and beyond the byte; two LEDs a group are what an address off by one LED
needs, and the proof is for up to seven. In `dispatch`, two controllers find the
transport behind, before and between them. In `clients`, two frames wait while the
radio moves from one channel to the other and back, or is told to and does not; a third
request is refused. The queue holds what the pool gives there: that one
which does not changes nothing for the channel is part of the proof.

`CHECK_DEADLOCK FALSE` stands in `live.cfg` (a request without a callback stops the
program), `empty_callback.cfg` (a component marked failed is not called any more, and
nothing else may be left to do) and `actions.cfg` (every run of the automation may have
ended). In the other runs the system never stops.

### Fairness

`WF(LoopStep)`: ESPHome's main loop keeps calling `loop()`, and application code
called from it returns. `WF(WifiPush)`: the Wi-Fi task is scheduled.
`WF(SendReport)`: the driver reports on every frame `esp_now_send()` accepted, as
ESP-IDF documents, as long as the callback is registered. No fairness is assumed
for calls of the application, for `esp_now_send()` succeeding, or for frames from
the air; `MaxFrames` bounds these, so a flood of frames that keeps `loop()` from
ever reaching `send_()` is outside the model.

`SendAction`: `WF(Reports)` is the service's promise that accepted packets are reported;
`report_dropped`, `disable()` while a frame is with the driver, and a packet that leaks
(`Forgotten`, or a report that the full queue does not take) break it: `RunsEnd` says nothing of
these.
`WF(ListDone(r))`: the user's `on_sent` and `on_error` actions end.

The other modules state no fairness: their properties are about safety.

### Findings

1. `espnow_component.cpp:322` calls the callback without a test. `send()`'s default
   argument is an empty callback (`espnow_component.h:133`), and the SwitchC6 switch
   sends without one (`switch_c6_switch.cpp:47`), as does the controller. `send_()` has the
   test (`:409`) (`empty_callback`).
2. `espnow_component.cpp:74`: a report that finds the receive pool empty is
   dropped; the sender waits for it for ever (`report_dropped`). In the run two frames
   that `loop()` has not taken yet exhaust a pool of two; in the build it takes sixteen.
3. `lp5562.cpp:58`: `config_val` is never initialised; the whole byte is written, with
   bits nobody configured (`lp_config`).

Met while modelling, and not the subject of a run:

* `espnow_component.cpp:232`: `disable()` leaves `current_send_packet_` as it is; the frame's
  report never comes and after `enable()` nothing is sent any more. `SendsComplete` and
  `CurrentAccounted` say that this, finding 2 and the next item are the only ways for a
  request to stay unanswered in a running component.
* `espnow_component.cpp:89`, `:114`, `:393`: if the queue holds one packet less than the pool gives,
  the first burst of 16 leaks one, and the report or the request in it is lost, against the
  comment at `:90` ("the pool ensures we never exceed queue size"). It happens once in the
  life of each pool, which is then as small as the queue (`LeaksBounded`). Whether the queue does is
  decided by the ESPHome version in use.
* `espnow_component.cpp:258`: the result of `esp_wifi_set_channel()` is ignored. A channel that the
  driver refuses, 13 or 14 under some country settings or anything else given to
  `set_channel()`, leaves the radio where it was; the component is not marked failed, and
  the frame that names the channel goes out on another. `FramesOnTheirChannel` speaks of the
  channels the driver accepts.
* `espnow_component.cpp:474`: `del_peer()` erases one entry; the generated configuration may
  hold two (`__init__.py:82` does not look for duplicates), and `enable()` pairs the peer
  again. `DeletedForgotten` is proved for configurations without duplicates.
* `automation.h:63`: without `wait_for_sent` a refused packet ends the automation, with
  `num_running_` left positive, although `continue_on_error` has to be set.
* `automation.h:73`: `stop()` leaves the callback of a packet on its way. In a script that is
  restarted, the old packet's report continues the automation before the new packet is
  sent, and the new report continues nothing.
* With `continue_on_error` off, one run's error calls `stop_complex()`, which stops every
  other run that waits (`automation.h:31`); the report of one of these may continue it all the
  same when another run has begun since, and then the other is not.
* `pyramidtouch.cpp:86`: a pad whose read fails counts as free for one poll and as pressed
  anew in the next, which can publish a swipe no finger made. Two pads pressed in one
  poll open only the lead pad's swipe (`:40-41`); the press that comes at the first poll
  after the window drops the pending one and opens none (`:51-53`).
* `switch_c6_switch.cpp:32`: with the Wi-Fi enabled, or the component disabled, the first
  `write_state()` marks the ESP-NOW component failed for good, and publishes the state. That
  is what makes `FramesOnTheirChannel` hold: nothing is sent any more. A command that is not
  queued is published all the same (`refused` in `NewestSays`).
* A frame that waits while another client tunes the radio, for instance a second switch
  with another `channel`, goes out on the wrong channel (`moved` in `FramesOnTheirChannel`).
* A controller registered ahead of the transport keeps from it every packet that looks
  like an answer, whatever it is (`TransportSees`); in the other order nothing is lost.
* `lp5562.cpp:157`, `:183`: after a read that failed, which is only logged, the write puts
  whatever the variable held into the fields of the other channels or engines
  (`lpGarbled` in `FieldsKept`).
* Two PyramidRGB components used for one channel repaint it with their own stale copies
  of its other colours (`pyramidrgb.cpp:111`), which `OwnerAssumption` excludes.
* `pyramidrgb.h:23-24` names channels 2 and 3 the other way round than
  `pyramidrgb.cpp:58-59`, which agrees with `src/README.md`; `src/README.md:127` speaks of a 7-bit
  brightness, the code scales to 255 (`pyramidrgb.cpp:47`).

## 4. Proofs

The theorems hold for every value of the constants that the named assumptions of
the modules allow. `EspNowProofs`:

| theorem | statement |
|---|---|
| `Types`, `RxConserved`, `TxConserved` | `Spec => []TypeOK`, `[]RxConservation`, `[]TxConservation` |
| `BoundedLeaks` | `Spec => []LeaksBounded`: what the queues do not take is at most what the pools give beyond them |
| `ReportsAttributed`, `SenderAccounted`, `RequestsKept` | `Spec => []ReportsAreCurrent`, `[]CurrentAccounted`, `[]AcceptedRequests` |
| `StopsInCallback` | `Spec => []StoppedByReport`: the program stops only at the report on a request without a callback, whose frame the driver has reported on |
| `Refinement` | `Spec => ImplementsService` |
| `InOrder` | `Spec => ToldInOrder` |
| `PeersRemembered` | `Spec => []PeerTables` |
| `DeletedForgotten` | with `IsInjective(ConfigPeers)`, `Spec => DeletedPeerForgotten` |

*Resources.* `TypeOK` says that the pools stay within their sizes, which is the
absence of double release. It is not inductive: releasing a packet keeps
`rxFree <= RxPoolSize` only because the packet was counted, which is
`RxConservation`, and only if there is a packet at that place of `loop()`, which is
`PhaseInv`. `ResourceInv` is their conjunction. Nothing is assumed of the queues' capacities.
`BoundedLeaks` rests on it: a push that is refused finds the queue full, the packet that is
pushed is one more, and so the packets that have leaked are fewer than the pool gives
beyond the queue.

*The sender.* `ReportPlaces` gives every report in transit a place: its position in
the queue, one behind the queue when the Wi-Fi task holds it, two behind
when the driver owes it. `CurrentAccounted` says there is at most one, and none
exactly when the current request's report is lost; `ReportsAreCurrent` that it is the current
request's. Each is kept only with the help of the others, of `AcceptedRequests` (the head of the
send queue is a new request, without a verdict) and of `AnswerInv` (a request in its callback has
been answered). `SendInv` is the conjunction, proved action by action on top of `ResourceInv`.

*Refinement.* With `active <- current` outside a callback and `None` inside, each
step of the component is a step of `SendService` or leaves its variables alone; the
case of `PopSent` needs `ReportsAreCurrent`; a leak is the service's `Forget` or `Lose`.
`InOrder` follows: a caller sees the active request and the queue behind it as one line
(`Line`), so that putting the oldest request on the air changes nothing for it, and each
other step of the service is one of `SendReports` or invisible (`CallersStep`, which needs
`AcceptedRequests`: a request is not accepted while it waits).

*Peers.* `PeerTables` is inductive on top of `ResourceInv`, with the lemmas on
`Append` and `RemoveFirst`.

`SendActionProofs`:

| theorem | statement |
|---|---|
| `Types` | `Spec => []TypeOK` |
| `Once` | `Spec => []ContinuesOnce`, for every configuration |
| `WaitingCounted` | if `Runs` is finite, `Spec => []RunningCounts`, for every configuration |

`ContinuesOnce` needs that the runs in the report queue are distinct and still sending
(`QueueInv`) and that a run in a phase before `done` has not continued and has the
answer its list says (`PhaseInv`). `RunningCounts` then follows from the cardinality of the set of
waiting runs, which each action changes by the run it is about or not at all. It
speaks of the time until something is stopped.

`PyramidTouchProofs`:

| theorem | statement |
|---|---|
| `TouchTypes`, `PendingFresh`, `LonePending` | `Spec => []TypeOK`, `[]PendingInv`, `[]AloneInv` |
| `GenuineSwipes`, `ReportedSwipes` | `Spec => SwipesAreGenuine`, `Spec => SwipesAreReported` |

`PendingInv` bounds the age of a pending press, so that the clock cannot come
round within it: from `Timeout + MaxGap < Word`, unsigned difference and real time
agree for one more poll (`Clock`). `AloneInv` is what a missed swipe would break.

`LP5562Proofs`:

| theorem | statement |
|---|---|
| `LpTypes`, `LpFields` | `Spec => []TypeOK`, `Spec => []FieldsKept` |
| `LpEnabled` | `Spec => []UpMeansEnabled` |

`TypeOK` and `FieldsKept` are inductive together. What masks and shifts do is proved bit by
bit (`WithFieldBits`, `EveryFieldReads`), and from that, what the chip then reads in each field
(`WithFieldReads`, `MapReads`, `ModeReads`): the value asked for in its own, in every
other what was in the byte. `UpMeansEnabled` is the end of `SetupInv`, which says for every
place in `setup()` what the chip's registers have reached, and is kept by operations
and restarts because these leave `enable` and `config` alone. From `LpConfigAssumption` and
`LpCallAssumption` (arguments have their types).

`I2cSetupProofs`:

| theorem | statement |
|---|---|
| `SetupTypes`, `OutputsAreConfigured` | `Spec => []TypeOK`, `[]OutputsConfigured` |
| `HalfwayIsOff`, `CompleteIsConfigured` | `Spec => []HalfwayOff`, `[]CompleteMeansConfigured` |

None of the last three is inductive: that switching the outputs on finds everything
configured needs `Progress`, what each write of this boot has left, and
`AmplifierProgress` for the other device; that a restart with the outputs on is harmless
needs that the first write switches them off before another register changes, which is
`OutputsConfigured` and `HalfwayOff` themselves. `AtInv` ties the place in `setup()` to `setup_complete_`.
`SetupStrength` is the conjunction. The module has
no assumption.

`PyramidRGBProofs`:

| theorem | statement |
|---|---|
| `RgbTypes` | `Spec => []TypeOK` |
| `RgbReportedShown`, `RgbBootFill` | `Spec => []ReportedShown`, `Spec => []BootFill` |

`RgbInv` adds to the type what is true of a running call, among it that the LEDs it has
written without a failure show its colour (`JobInv`), that the owner's copy of a channel
is the colour asked for (`CopyInv`), that the LEDs of a reported channel show it
(`ShownInv`), and where a clean component's boot fill is (`CleanInv`). That a write does not touch another
channel's registers is arithmetic on `Register`, from `NumLeds \in 1..7`. `OwnerAssumption` is what
makes `CopyInv` true.

`DispatchProofs`:

| theorem | statement |
|---|---|
| `DispatchTypeCorrect` | `Spec => []TypeOK` |
| `DispatchAutomationsSeeAll` | `Spec => []AutomationsSeeAll` |
| `DispatchTransportSees` | `Spec => []TransportSees` |

Both properties speak of a packet that has been handled; what makes them true is what
holds in the middle of a walk. `ChainsInv` is the shape of the chains: the triggers first, as
configured, then the transport, once, and controllers, since all of them register at
the back. `WalkInv` says where the packet stands, and that no handler passed so far has
claimed it while the walk goes on; with `ChainsInv`, that a walk which ended early ended
behind the triggers. `RanInv` says that the visits in `ran` are to places passed, in their order,
and that no trigger was passed that asks for the packet and did not run; `TransportInv` that
the transport ran where it was passed unless a controller in front of it claims the packet.
A registration between packets changes the chains under a finished history: it only
appends, so every place in `ran` keeps its handler. From `TriggerAssumption` (the generated
code registers triggers before anything is set up, and a trigger is not the transport);
of the texts only emptiness and `Valid` matter, and nothing is assumed.

`SwitchC6Proofs`:

| theorem | statement |
|---|---|
| `C6TypeCorrect` | `Spec => []TypeOK`, with the bound on the packets taken from the pool |
| `C6FramesOnTheirChannel` | `Spec => []FramesOnTheirChannel` |
| `C6OneChannel` | with one channel for everybody, which the driver accepts, and no Wi-Fi component, every frame that names a channel goes on the air on it, overtaken or not |
| `C6NewestSays` | `Spec => []NewestSays` |
| `C6AcceptedArePaired` | `Spec => AcceptedArePaired` |

`FramesOnTheirChannel` speaks of the frame on the air, and rests on the ones that wait:
`QueuedOnChannel` says that each names no channel, or one the driver refuses, or the radio's,
or was overtaken, or the radio is off (nothing goes on the air then, and whoever switches it on overtakes the
frame). It is kept by a switch because a channel that could not be set marks the
component failed, and a failed one queues nothing (`ClientStep`), while one that the driver accepts is
where a radio that is on then is. `NewestSays` is kept on its own
under appending, taking the head and overtaking (`NewestAppended`, `NewestTail`, `NewestKept`).
`AcceptedArePaired` needs `ListedInv`: a peer of the driver's is listed, so that a send which finds
it in the driver's table alone need not list it. `C6Inv` is the conjunction. `TakenBound` keeps the packets taken within the pool, the leaked ones included. In
`C6OneChannel` the radio is on that channel whenever it is on, or the component was marked
failed before its `setup()` and sends nothing (`OnChannelInv`): the hypothesis `OnlyChannel` is what
`src/examples/switch_c6_example.yaml:11-42` configures (no Wi-Fi, channel 1 for the component and
for the switch). All from `SwitchAssumption`.

Only model-checked: `SendsComplete`, `PacketsReturn` and `RunsEnd`, which are liveness under
fairness (the proof system here does not decide ENABLED, on which weak fairness rests), and
the three violations, which TLC shows by a counterexample.

## 5. Not modelled

* Code generation (`espnow/__init__.py` and its like): it runs before the program exists;
  its results are constants here. `enable_on_boot` is accepted by the schema and never
  passed on (`__init__.py:80`).
* The example `src/examples/HomeAssistantVoice.yaml`: its phase variable is set from
  callbacks of ESPHome's voice assistant, media player and wake-word components. Which of
  them may follow which is not in this repository, and a model would be of guesses.
* `pyramidrgb/ouptut`: a misspelt copy that no configuration loads.
* The characters of messages and addresses. Two checks are therefore outside the models:
  `is_valid_mac_format()` accepts a form with colons that `normalize_mac()` has replaced
  before, and does not look whether the rest are hexadecimal digits.
* Starvation: `loop()` drains the receive queue before it sends, and the number of frames
  from the air is bounded here.
* `dump_config()`, logging, drop counters, and ESPHome's own components.

## 6. What could follow

The receive side as a service of its own: packets are handled one at a time, to the end and
in the order in which the Wi-Fi task took them from the pool. And a refinement
from `EspNow` composed with the channel to `SwitchC6`, whose steps are coarser.
