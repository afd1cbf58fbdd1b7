------------------------------ MODULE SwitchC6 ------------------------------
(***************************************************************************)
(* The SwitchC6 switches and controller, and the packet transport, as       *)
(* clients of one ESP-NOW component (src/components/espnow): each sets or   *)
(* reads the radio's channel, pairs the broadcast address and queues        *)
(* frames, over the state they share.                                       *)
(*                                                                          *)
(* A frame of a switch or of the controller names the channel its device is *)
(* to answer on.  Such frames are sent without a callback, so that the      *)
(* report of one stops the program, and the ESP32 restarts.                 *)
(***************************************************************************)
EXTENDS Naturals, Sequences, SequencesExt

CONSTANTS
    Sources,         \* the addresses packets come from
    Switches,
    SwitchChannel,   \* channel_ of each switch
    ConfigChannel,   \* the channel the component is configured with; 0 if none
    Tunable,         \* the channels the driver accepts in the country it is set to
    UserChannels,    \* bound: channels the radio is set or moves to otherwise
    Commands,        \* bound: what the controller is told to send
    PoolSize,        \* capacity of send_packet_pool_
    QueueCap,        \* capacity of send_packet_queue_
    AutoAddPeer,     \* auto_add_peer_
    EnableOnBoot,    \* enable_on_boot_
    ConfigPeers,     \* the peers of the configuration
    Broadcast,       \* ESPNOW_BROADCAST_ADDR
    PeerAddress,     \* the transport's peer_address_
    UsesWifi,        \* is there a Wi-Fi component?
    MaxReceived      \* bound: what the receive queue holds

Byte == 0..255
RadioChannels == 1..14
AnyPeer == Sources \cup {Broadcast}
Users == Switches \cup {"controller"}

ASSUME SwitchAssumption ==
    /\ SwitchChannel \in [Switches -> RadioChannels]
    /\ ConfigChannel \in RadioChannels \cup {0}
    /\ Tunable \subseteq RadioChannels /\ UserChannels \subseteq Byte
    /\ PoolSize \in Nat \ {0} /\ QueueCap \in Nat /\ MaxReceived \in Nat
    /\ {AutoAddPeer, EnableOnBoot, UsesWifi} \subseteq BOOLEAN
    /\ PeerAddress \in AnyPeer /\ ConfigPeers \subseteq AnyPeer
    /\ Broadcast \notin Sources /\ {"none", "report"} \cap Sources = {}
    /\ Switches \cap {"controller", "transport"} = {}

VARIABLES
    pc,          \* before setup(), outside loop(), in it, in one of the handlers for
                 \*   unknown peers or one of the others, or stopped
    inHand,      \* the source of the packet whose unknown peer handlers run
    state,       \* state_
    failed,      \* is_failed()
    driver,      \* do the driver's callbacks run?
    wifi,        \* is_wifi_enabled()
    radio,       \* the channel the radio is on; 0 when it is off
    wifiChannel, \* wifi_channel_
    paired,      \* the driver's peers
    peers,       \* peers_
    cached,      \* the users with broadcast_peer_added_
    published,   \* the state each switch has published
    refused,     \* history: the switches whose last command was not queued
    txQueue,     \* send_packet_queue_
    leaked,      \* history: packets of the pool that a full queue has not taken
    current,     \* current_send_packet_
    onAir,       \* the frame the driver sends, and the radio's channel then
    rxQueue      \* receive_packet_queue_: the packets, by their source, and reports

compVars == <<state, failed, driver>>
peerVars == <<paired, peers, cached>>
switchVars == <<published, refused>>
sendVars == <<txQueue, leaked>>
queueVars == <<sendVars, current, onAir, rxQueue>>
c6vars == <<pc, inHand, compVars, wifi, radio, wifiChannel, peerVars, switchVars, queueVars>>

\* Automations and the user's code run before the component's setup(), which comes
\* late, between two calls of loop(), or in a handler that loop() has called.
ClientRuns == pc \in {"boot", "idle", "unknown", "handler"}
InLoop == pc \in {"drain", "handler"}

None == [by |-> "none"]

\* "moved" is history: the radio has changed its channel while the frame, which
\* names one unless it is 0, waited.
Frame(by, dst, cmd, ch) == [by |-> by, dst |-> dst, cmd |-> cmd, ch |-> ch, moved |-> FALSE]

\* The queue once the radio is on channel ch.
Overtaken(ch) ==
    IF ch = radio THEN txQueue
    ELSE [i \in DOMAIN txQueue |-> [txQueue[i] EXCEPT !.moved = (txQueue[i].ch # 0)]]

Init ==
    /\ pc = "boot" /\ inHand = "none"
    /\ state = "OFF" /\ failed = FALSE /\ driver = FALSE
    /\ wifi \in {UsesWifi, FALSE}
    /\ radio = 0 /\ wifiChannel = ConfigChannel
    /\ paired = {} /\ peers = ConfigPeers /\ cached = {}
    /\ published = [s \in Switches |-> "none"] /\ refused = {}
    /\ txQueue = <<>> /\ leaked = 0 /\ current = None /\ onAir = None /\ rxQueue = <<>>

-----------------------------------------------------------------------------
(* Enabling and the channel.                                                *)

\* Mutant: the component is not marked failed while the Wi-Fi is enabled.
ChannelFailsQuietly(st) == failed \/ st = "DISABLED"

\* apply_wifi_channel() in state st marks the component failed, for good, when it
\* is disabled or the Wi-Fi is not.
ChannelFails(st) == failed \/ st = "DISABLED" \/ wifi

\* Where it leaves a radio that was on channel from: what the driver says to a
\* channel, and that a radio is off, the code ignores.
Tuned(st, from, ch) ==
    IF st = "DISABLED" \/ wifi \/ from = 0 \/ ch \notin Tunable THEN from ELSE ch

\* enable_() in state st: with the Wi-Fi disabled it starts the radio, on channel
\* 1, and sets the channel; then it reads the channel back.  When the driver
\* refuses a callback it may already have taken the other.
Enable_(st, ok) ==
    LET on == IF radio = 0 THEN 1 ELSE radio
        ch == IF wifi THEN on ELSE Tuned(st, on, wifiChannel)
    IN /\ radio' = ch /\ wifiChannel' = ch /\ txQueue' = Overtaken(ch)
       /\ failed' = (failed \/ ~ok \/ (~wifi /\ ChannelFails(st)))
       /\ state' = IF ok THEN "ENABLED" ELSE st
       /\ driver' \in IF ok THEN {TRUE} ELSE {driver, TRUE}
       /\ \E added \in SUBSET (IF ok /\ ~failed' THEN peers ELSE {}) :
            paired' = paired \cup added
       /\ UNCHANGED <<inHand, wifi, peers, cached, switchVars, leaked, current, onAir, rxQueue>>

\* The component's setup(), which is not called when it was marked failed before.
Boot ==
    /\ pc = "boot" /\ pc' = "idle"
    /\ \/ ~failed /\ EnableOnBoot /\ \E ok \in BOOLEAN : Enable_(state, ok)
       \/ /\ ~failed /\ ~EnableOnBoot /\ state' = "DISABLED"
          /\ UNCHANGED <<inHand, failed, driver, wifi, radio, wifiChannel, peerVars, switchVars,
                         queueVars>>
       \/ /\ failed
          /\ UNCHANGED <<inHand, compVars, wifi, radio, wifiChannel, peerVars, switchVars,
                         queueVars>>

Enable ==
    /\ ClientRuns /\ state # "ENABLED"
    /\ \E ok \in BOOLEAN : Enable_("OFF", ok)
    /\ UNCHANGED pc

Disable ==
    /\ ClientRuns /\ state # "DISABLED"
    /\ state' = "DISABLED" /\ driver' = FALSE /\ paired' = {} /\ onAir' = None
    /\ UNCHANGED <<pc, inHand, failed, wifi, radio, wifiChannel, peers, cached, switchVars,
                   sendVars, current, rxQueue>>

SetWifiChannel(ch) ==
    /\ wifiChannel' = ch
    /\ radio' = Tuned(state, radio, ch) /\ txQueue' = Overtaken(radio')
    /\ failed' = ChannelFails(state)
    /\ UNCHANGED <<pc, inHand, state, driver, wifi, peerVars, switchVars, leaked, current, onAir,
                   rxQueue>>

\* set_channel() of the controller, and the action of the automations.
SetChannel(ch) == ClientRuns /\ SetWifiChannel(ch)
SetChannelAction(ch) == ClientRuns /\ ~wifi /\ SetWifiChannel(ch)

\* The Wi-Fi component is enabled, moves to an access point's channel, or is
\* disabled, which may switch the radio off.
WifiChanges ==
    /\ UsesWifi /\ pc # "aborted"
    /\ \/ wifi' = FALSE /\ radio' \in {0, radio}
       \/ wifi' = TRUE /\ radio' \in UserChannels \cap RadioChannels
    /\ txQueue' = Overtaken(radio')
    /\ UNCHANGED <<pc, inHand, compVars, wifiChannel, peerVars, switchVars, leaked, current,
                   onAir, rxQueue>>

-----------------------------------------------------------------------------
(* Sending.                                                                 *)

\* The packets of send_packet_pool_ that are not free.
Taken == Len(txQueue) + leaked + IF current = None THEN 0 ELSE 1

\* What add_peer() in a component whose is_failed() is fails may leave of the
\* driver's peers, which are known: the driver may refuse a new one.
PairedByAdd(a, fails, known) ==
    {known} \cup (IF state = "ENABLED" /\ ~fails THEN {known \cup {a}} ELSE {})

\* The same for the call that send() makes.
PairedBySend(a, fails, known) ==
    IF a \notin known /\ (a = Broadcast \/ AutoAddPeer)
    THEN PairedByAdd(a, fails, known) ELSE {known}

\* Mutant: send() does not look whether the pool has a packet.
AcceptsUnbounded(by, a, fails, known) ==
    state = "ENABLED" /\ ~fails /\ a \in known

\* Mutant: send() relies on the client's own flag.
AcceptsCached(by, a, fails, known) ==
    state = "ENABLED" /\ ~fails /\ (a \in known \/ by \in cached) /\ Taken < PoolSize

\* send(), after its call of add_peer().
Accepts(by, a, fails, known) ==
    state = "ENABLED" /\ ~fails /\ a \in known /\ Taken < PoolSize

\* Mutant: the newest frame goes first.
EnqueueFirst(queue, f) == <<f>> \o queue

Enqueue(queue, f) == Append(queue, f)

\* The accepted frame is pushed, and its packet is lost when the queue is full:
\* nobody looks at the result.
Push(queue, f) ==
    IF Len(queue) < QueueCap
    THEN txQueue' = Enqueue(queue, f) /\ UNCHANGED leaked
    ELSE txQueue' = queue /\ leaked' = leaked + 1

\* ensure_broadcast_peer_added() and send() of a client, on the queue as it is
\* after the radio was tuned; a client that "stops" does not send when the former
\* failed.  add_peer() also lists a peer that the driver knew.
Transmit(by, cmd, ch, fails, stops, queue) ==
    \E known \in IF by \in cached THEN {paired} ELSE PairedByAdd(Broadcast, fails, paired) :
      LET usable == state = "ENABLED" /\ ~fails
          ensured == by \in cached \/ (usable /\ Broadcast \in known)
          sends == ensured \/ ~stops
      IN \E after \in IF sends THEN PairedBySend(Broadcast, fails, known) ELSE {known} :
         LET accepted == sends /\ Accepts(by, Broadcast, fails, after)
             listed == usable /\ ((by \notin cached /\ Broadcast \in known) \/ after # known)
         IN
         /\ cached' = IF ensured THEN cached \cup {by} ELSE cached
         /\ paired' = after
         /\ peers' = IF listed THEN peers \cup {Broadcast} ELSE peers
         /\ IF accepted THEN Push(queue, Frame(by, Broadcast, cmd, ch))
            ELSE txQueue' = queue /\ UNCHANGED leaked
         /\ IF by \in Switches
            THEN /\ published' = [published EXCEPT ![by] = cmd]
                 /\ refused' = IF accepted /\ Len(queue) < QueueCap
                               THEN refused \ {by} ELSE refused \cup {by}
            ELSE UNCHANGED switchVars

\* write_state() of a switch: whatever happens, the state is published.
WriteState(s, on) ==
    /\ ClientRuns
    /\ wifiChannel' = SwitchChannel[s]
    /\ radio' = Tuned(state, radio, SwitchChannel[s])
    /\ failed' = ChannelFails(state)
    /\ Transmit(s, on, SwitchChannel[s], ChannelFails(state), FALSE, Overtaken(radio'))
    /\ UNCHANGED <<pc, inHand, state, driver, wifi, current, onAir, rxQueue>>

\* send_switch_command() and the queries: the channel is read from the radio,
\* when it has one, and 1 stands for what is no channel.  (A malformed address is
\* refused before anything happens.)
ControllerSend(cmd) ==
    /\ ClientRuns
    /\ wifiChannel' = IF radio = 0 THEN wifiChannel ELSE radio
    /\ Transmit("controller", cmd, IF wifiChannel' \in RadioChannels THEN wifiChannel' ELSE 1,
                failed, TRUE, txQueue)
    /\ UNCHANGED <<pc, inHand, compVars, wifi, radio, current, onAir, rxQueue>>

\* send_custom_message(), called with a text of the user's that names no channel.
SendCustomMessage ==
    /\ ClientRuns
    /\ Transmit("controller", "custom", 0, failed, TRUE, txQueue)
    /\ UNCHANGED <<pc, inHand, compVars, wifi, radio, wifiChannel, current, onAir, rxQueue>>

\* send_packet() of the transport, which sends with a callback.
TransportSend ==
    /\ ClientRuns /\ ~failed
    /\ \E after \in PairedBySend(PeerAddress, failed, paired) :
         /\ paired' = after
         /\ peers' = IF after # paired THEN peers \cup {PeerAddress} ELSE peers
         /\ IF Accepts("transport", PeerAddress, failed, after)
            THEN Push(txQueue, Frame("transport", PeerAddress, "data", 0))
            ELSE UNCHANGED sendVars
    /\ UNCHANGED <<pc, inHand, compVars, wifi, radio, wifiChannel, cached, switchVars, current,
                   onAir, rxQueue>>

\* An automation deletes the broadcast peer.
DelBroadcast ==
    /\ ClientRuns /\ state = "ENABLED" /\ ~failed
    /\ paired' = paired \ {Broadcast} /\ peers' = peers \ {Broadcast}
    /\ UNCHANGED <<pc, inHand, compVars, wifi, radio, wifiChannel, cached, switchVars, queueVars>>

-----------------------------------------------------------------------------
(* The driver's callbacks and loop().                                       *)

Arrive(e) == Len(rxQueue) < MaxReceived /\ rxQueue' = Append(rxQueue, e)

ReceivePacket(src) ==
    /\ pc # "aborted" /\ driver
    /\ Arrive(src)
    /\ UNCHANGED <<pc, inHand, compVars, wifi, radio, wifiChannel, peerVars, switchVars,
                   sendVars, current, onAir>>

\* The report is dropped when the receive pool has no packet for it.
ReportSent ==
    /\ pc # "aborted" /\ onAir # None
    /\ onAir' = None
    /\ Arrive("report") \/ UNCHANGED rxQueue
    /\ UNCHANGED <<pc, inHand, compVars, wifi, radio, wifiChannel, peerVars, switchVars,
                   sendVars, current>>

\* The channel follows a Wi-Fi that is connected, which it may be when it is
\* enabled.
LoopBegin ==
    /\ pc = "idle" /\ ~failed /\ pc' = "drain"
    /\ wifiChannel' \in {wifiChannel} \cup IF wifi THEN {radio} ELSE {}
    /\ UNCHANGED <<inHand, compVars, wifi, radio, peerVars, switchVars, queueVars>>

\* The handlers of a packet from a peer of the driver's, or of another.
LoopPacket ==
    /\ InLoop /\ rxQueue # <<>> /\ Head(rxQueue) # "report"
    /\ IF Head(rxQueue) \in paired
       THEN pc' = "handler" /\ UNCHANGED inHand
       ELSE pc' = "unknown" /\ inHand' = Head(rxQueue)
    /\ rxQueue' = Tail(rxQueue)
    /\ UNCHANGED <<compVars, wifi, radio, wifiChannel, peerVars, switchVars, sendVars, current,
                   onAir>>

\* The triggers of unknown peers never claim a packet: its source is added when
\* the component adds peers; and when it is a peer now, by whomever it was added,
\* its handlers are called all the same.
LoopUnknown ==
    /\ pc = "unknown"
    /\ \E after \in IF AutoAddPeer THEN PairedByAdd(inHand, failed, paired) ELSE {paired} :
         /\ paired' = after
         /\ peers' = IF AutoAddPeer /\ state = "ENABLED" /\ ~failed /\ inHand \in after
                     THEN peers \cup {inHand} ELSE peers
         /\ pc' = IF inHand \in after THEN "handler" ELSE "drain"
    /\ inHand' = "none"
    /\ UNCHANGED <<compVars, wifi, radio, wifiChannel, cached, switchVars, queueVars>>

\* Only the transport's frames have a callback; calling another's stops the
\* program.
LoopReport ==
    /\ InLoop /\ rxQueue # <<>> /\ Head(rxQueue) = "report"
    /\ rxQueue' = Tail(rxQueue)
    /\ IF current.by \in {"none", "transport"}
       THEN current' = None /\ pc' = "drain"
       ELSE pc' = "aborted" /\ UNCHANGED current
    /\ UNCHANGED <<inHand, compVars, wifi, radio, wifiChannel, peerVars, switchVars, sendVars,
                   onAir>>

\* send_(): the driver takes the frame, or refuses it and the frame is dropped.
LoopEnd ==
    /\ InLoop /\ rxQueue = <<>> /\ pc' = "idle"
    /\ IF current # None \/ txQueue = <<>>
       THEN UNCHANGED <<txQueue, current, onAir>>
       ELSE LET f == Head(txQueue)
            IN /\ txQueue' = Tail(txQueue)
               /\ \/ /\ f.dst \in paired /\ radio # 0
                     /\ current' = f /\ onAir' = [frame |-> f, on |-> radio]
                  \/ UNCHANGED <<current, onAir>>
    /\ UNCHANGED <<inHand, compVars, wifi, radio, wifiChannel, peerVars, switchVars, leaked,
                   rxQueue>>

\* The ESP32 restarts.
Restart ==
    /\ pc' = "boot" /\ inHand' = "none"
    /\ state' = "OFF" /\ failed' = FALSE /\ driver' = FALSE
    /\ wifi' \in {UsesWifi, FALSE}
    /\ radio' = 0 /\ wifiChannel' = ConfigChannel
    /\ paired' = {} /\ peers' = ConfigPeers /\ cached' = {}
    /\ published' = [s \in Switches |-> "none"] /\ refused' = {}
    /\ txQueue' = <<>> /\ leaked' = 0 /\ current' = None /\ onAir' = None /\ rxQueue' = <<>>

Next ==
    \/ Boot \/ Enable \/ Disable \/ WifiChanges \/ TransportSend \/ DelBroadcast
    \/ SendCustomMessage
    \/ \E ch \in UserChannels : SetChannel(ch) \/ SetChannelAction(ch)
    \/ \E s \in Switches, on \in {"on", "off"} : WriteState(s, on)
    \/ \E cmd \in Commands : ControllerSend(cmd)
    \/ \E src \in Sources : ReceivePacket(src)
    \/ ReportSent \/ LoopBegin \/ LoopPacket \/ LoopUnknown \/ LoopReport \/ LoopEnd
    \/ Restart

Spec == Init /\ [][Next]_c6vars

-----------------------------------------------------------------------------
(* Properties.                                                              *)

Frames == [by : Users \cup {"transport"}, dst : AnyPeer,
           cmd : Commands \cup {"on", "off", "custom", "data"},
           ch : RadioChannels \cup {0}, moved : BOOLEAN]

\* Every variable keeps its type, and no more packets are taken than the pool has.
TypeOK ==
    /\ pc \in {"boot", "idle", "drain", "unknown", "handler", "aborted"}
    /\ inHand \in IF pc = "unknown" THEN Sources ELSE {"none"}
    /\ state \in {"OFF", "ENABLED", "DISABLED"} /\ failed \in BOOLEAN
    /\ driver \in BOOLEAN /\ wifi \in BOOLEAN
    /\ radio \in RadioChannels \cup {0} /\ wifiChannel \in Byte
    /\ paired \subseteq AnyPeer /\ peers \subseteq AnyPeer
    /\ cached \subseteq Users /\ refused \subseteq Switches
    /\ published \in [Switches -> {"none", "on", "off"}]
    /\ txQueue \in Seq(Frames) /\ current \in Frames \cup {None}
    /\ onAir \in [frame : Frames, on : RadioChannels] \cup {None}
    /\ rxQueue \in Seq(Sources \cup {"report"})
    /\ leaked \in Nat /\ Taken <= PoolSize

\* A frame that names a channel the driver accepts goes on the air on it, unless
\* the radio was moved while it waited.  A client whose channel could not be set,
\* for the component is disabled or the Wi-Fi has the radio, queues nothing, since
\* the component is marked failed.  When the driver refuses the channel itself,
\* nobody notices (espnow_component.cpp:258), and the frame names it all the same.
FramesOnTheirChannel ==
    onAir # None =>
      LET ch == onAir.frame.ch
      IN ch = 0 \/ onAir.frame.moved \/ ch \notin Tunable \/ onAir.on = ch

\* The newest frame of s that waits is the i-th of the queue.
NewestIs(s, i) ==
    txQueue[i].by = s /\ \A j \in DOMAIN txQueue : j > i => txQueue[j].by # s

\* A switch whose last command was queued, and still has frames waiting, has
\* the published state in the newest of them.
NewestSays ==
    \A s \in Switches \ refused : \A i \in DOMAIN txQueue :
      NewestIs(s, i) => txQueue[i].cmd = published[s]

\* A frame is only accepted for a peer that the driver has, however stale the
\* flag is that the client goes by: after the peer was deleted, or the component
\* disabled and enabled again without it.
AcceptedArePaired ==
    [][Len(txQueue') > Len(txQueue) => Last(txQueue').dst \in paired' \cap peers']_c6vars
=============================================================================
