------------------------------- MODULE EspNow -------------------------------
(***************************************************************************)
(* The ESP-NOW component (src/components/espnow/espnow_component.cpp): the  *)
(* application's calls, the component's loop(), and the two callbacks the   *)
(* ESP-NOW driver makes from the Wi-Fi task.                                *)
(*                                                                          *)
(* The main thread is sequential: an API call is one action, and loop() is  *)
(* cut at each place where application code runs inside it (the receive     *)
(* handlers, the send callbacks), because that code may call the API again. *)
(* The Wi-Fi task runs concurrently and is cut between taking a packet from *)
(* the pool and pushing it on the queue.                                    *)
(*                                                                          *)
(* A request is one call of send(); its payload, the channel number and the *)
(* wording of log lines are abstracted away.                                *)
(***************************************************************************)
EXTENDS Naturals, Sequences, SequencesExt

CONSTANTS
    Addresses,     \* the MAC addresses other than the broadcast one
    Broadcast,     \* ESPNOW_BROADCAST_ADDR
    Own,           \* own_address_
    Requests,      \* the calls of send() the application makes
    Dst,           \* the peer address each request is for
    Silent,        \* the requests made without a callback
    RxPoolSize,    \* capacity of receive_packet_pool_
    RxQueueCap,    \* what receive_packet_queue_ holds: the ring of 16 slots holds 15
    TxPoolSize,    \* capacity of send_packet_pool_
    TxQueueCap,    \* what send_packet_queue_ holds
    ConfigPeers,   \* peers_ as the generated code fills it before setup()
    AutoAddPeer,   \* auto_add_peer_
    EnableOnBoot,  \* enable_on_boot_
    OutOfMemory,   \* may a pool fail to allocate before it is exhausted?
    UserOps,       \* the kinds of API call the application makes besides send()
    MaxFrames,     \* bound: frames received from the air
    None           \* nullptr

AnyAddress == Addresses \cup {Broadcast}
OpKinds == {"enable", "disable", "add", "del", "channel", "wifi"}

ASSUME AddressAssumption ==
    /\ Broadcast \notin Addresses
    /\ Own \in Addresses
    /\ Dst \in [Requests -> AnyAddress]
    /\ ConfigPeers \in Seq(AnyAddress)
ASSUME PoolAssumption ==
    /\ {RxPoolSize, RxQueueCap, TxPoolSize, TxQueueCap, MaxFrames} \subseteq Nat
    /\ RxPoolSize > 0
    /\ TxPoolSize > 0
ASSUME SwitchAssumption ==
    /\ {AutoAddPeer, EnableOnBoot, OutOfMemory} \subseteq BOOLEAN
    /\ UserOps \subseteq OpKinds

-----------------------------------------------------------------------------
Received(src) == [type |-> "RECEIVED", src |-> src]
\* The request is not in the packet: it records whose report this is.
Sent(r, status) == [type |-> "SENT", req |-> r, status |-> status]

Packets == {Received(a) : a \in AnyAddress}
             \cup {Sent(r, s) : r \in Requests, s \in {"ok", "error"}}

ASSUME RequestAssumption ==
    /\ None \notin Requests \cup Packets
    /\ Silent \subseteq Requests

VARIABLES
    state,      \* state_
    failed,     \* is_failed()
    peers,      \* peers_, the peers the component remembers
    wifiOn,     \* is_wifi_enabled()
    espInit,    \* the driver is initialised
    espCb,      \* the callbacks registered with the driver
    espPeers,   \* the driver's peer list
    espFlight,  \* the request whose frame the driver is sending, or None
    rxFree,     \* packets receive_packet_pool_ can still give
    rxQueue,    \* receive_packet_queue_
    wifiHeld,   \* the packet the Wi-Fi task has filled and not yet pushed
    rxLeaked,   \* history: packets that a full receive_packet_queue_ has not taken
    txFree,     \* packets send_packet_pool_ can still give
    txQueue,    \* send_packet_queue_
    txLeaked,   \* history: packets that a full send_packet_queue_ has not taken
    current,    \* current_send_packet_
    pc,         \* where the main thread is in loop()
    pkt,        \* the packet loop() is processing
    frames,     \* frames received so far (bounded by MaxFrames)
    outcome,    \* how each call of send() has ended so far
    verdict     \* what became of each request's frame

componentVars == <<state, failed, peers, wifiOn>>
driverVars == <<espInit, espCb, espPeers, espFlight>>
rxVars == <<rxFree, rxQueue, wifiHeld, rxLeaked, frames>>
txVars == <<txFree, txQueue, txLeaked, current>>
loopVars == <<pc, pkt>>
historyVars == <<outcome, verdict>>
vars == <<componentVars, driverVars, rxVars, txVars, loopVars, historyVars>>

-----------------------------------------------------------------------------
\* Where the main thread stands in loop(): outside it ("idle"), in the receive
\* loop, in application code called from it ("unknown", "deliver", "sent",
\* "unsent"), before the packet's release, before send_(), or stopped.
Phases == {"boot", "idle", "drain", "unknown", "deliver", "sent", "release",
           "tx", "unsent", "aborted"}

\* Places where application code runs and may call the component.
UserCode == {"idle", "unknown", "deliver", "sent", "unsent"}

Running == pc # "aborted"

\* Mutant: the result of allocate() is used without the test for nullptr.
CanAllocateUnchecked(free) == TRUE

\* allocate() may return a packet; it may return nullptr.
CanAllocate(free) == free > 0
CanFail(free) == free = 0 \/ OutOfMemory

\* Mutant: the newest packet goes first.
PushFront(queue, x) == <<x>> \o queue

Push(queue, x) == Append(queue, x)

\* push() on a full queue does nothing; its callers ignore the result, and nobody has
\* the packet any more.
HasRoom(queue, cap) == Len(queue) < cap

Init ==
    /\ state = "OFF" /\ failed = FALSE
    /\ peers = ConfigPeers
    /\ wifiOn \in BOOLEAN
    /\ espInit = FALSE /\ espCb = {} /\ espPeers = {} /\ espFlight = None
    /\ rxFree = RxPoolSize /\ rxQueue = <<>> /\ wifiHeld = None
    /\ rxLeaked = 0 /\ frames = 0
    /\ txFree = TxPoolSize /\ txQueue = <<>> /\ txLeaked = 0 /\ current = None
    /\ pc = "boot" /\ pkt = None
    /\ outcome = [r \in Requests |-> "new"]
    /\ verdict = [r \in Requests |-> "none"]

-----------------------------------------------------------------------------
(* Enabling, disabling, the channel.                                        *)

\* enable_(), up to the first driver call that fails ("ok" when none does).
\* Only an enabled component that is not failed gets its peers back, and the
\* driver may refuse some of them.  Its apply_wifi_channel() call never marks
\* the component failed: it is made in state OFF with the Wi-Fi disabled.
Enable_(stage) ==
    /\ espInit' = (espInit \/ stage # "init")
    /\ espCb' = espCb \cup (IF stage \in {"send", "ok"} THEN {"recv"} ELSE {})
                      \cup (IF stage = "ok" THEN {"send"} ELSE {})
    /\ failed' = (failed \/ stage # "ok")
    /\ state' = IF stage = "ok" THEN "ENABLED" ELSE "OFF"
    /\ \E added \in SUBSET (IF failed' THEN {} ELSE ToSet(peers) \ {Own}) :
          espPeers' = espPeers \cup added
    /\ UNCHANGED <<peers, wifiOn, espFlight, rxVars, txVars, historyVars>>

Stages == {"init", "recv", "send", "ok"}

Setup ==
    /\ pc = "boot"
    /\ pc' = "idle" /\ pkt' = pkt
    /\ IF EnableOnBoot
       THEN \E stage \in Stages : Enable_(stage)
       ELSE /\ state' = "DISABLED"
            /\ UNCHANGED <<failed, peers, wifiOn, driverVars, rxVars, txVars,
                           historyVars>>

Enable ==
    /\ pc \in UserCode /\ "enable" \in UserOps
    /\ state # "ENABLED"
    /\ \E stage \in Stages : Enable_(stage)
    /\ UNCHANGED loopVars

\* The driver forgets its peers and the frame it was sending; that frame's
\* report never comes.
Disable ==
    /\ pc \in UserCode /\ "disable" \in UserOps
    /\ state # "DISABLED"
    /\ state' = "DISABLED"
    /\ espInit' = FALSE /\ espCb' = {} /\ espPeers' = {} /\ espFlight' = None
    /\ verdict' = [r \in Requests |->
                     IF r = espFlight THEN "lost" ELSE verdict[r]]
    /\ UNCHANGED <<failed, peers, wifiOn, rxVars, txVars, loopVars, outcome>>

ApplyWifiChannel ==
    /\ pc \in UserCode /\ "channel" \in UserOps
    /\ failed' = (failed \/ state = "DISABLED" \/ wifiOn)
    /\ UNCHANGED <<state, peers, wifiOn, driverVars, rxVars, txVars, loopVars,
                   historyVars>>

\* The Wi-Fi component is enabled or disabled.
WifiToggle ==
    /\ pc \in UserCode /\ "wifi" \in UserOps
    /\ wifiOn' = ~wifiOn
    /\ UNCHANGED <<state, failed, peers, driverVars, rxVars, txVars, loopVars,
                   historyVars>>

-----------------------------------------------------------------------------
(* Peers.                                                                   *)

Configurable == state = "ENABLED" /\ ~failed

\* add_peer() returns ESP_OK, when the driver's answer is driverOk.
PeerAddable(a, driverOk) ==
    Configurable /\ a # Own /\ (a \in espPeers \/ driverOk)

\* Mutant: add_peer() appends without looking for the address.
RememberAgain(a) == peers' = Append(peers, a)

Remember(a) == peers' = IF a \in ToSet(peers) THEN peers ELSE Append(peers, a)

AddPeerTo(a, driverOk) ==
    IF PeerAddable(a, driverOk)
    THEN espPeers' = espPeers \cup {a} /\ Remember(a)
    ELSE UNCHANGED <<espPeers, peers>>

AddPeer(a) ==
    /\ pc \in UserCode /\ "add" \in UserOps
    /\ \E driverOk \in BOOLEAN : AddPeerTo(a, driverOk)
    /\ UNCHANGED <<state, failed, wifiOn, espInit, espCb, espFlight, rxVars,
                   txVars, loopVars, historyVars>>

\* Mutant: del_peer() returns once the driver has deleted the peer.
ForgetNothing(a) == UNCHANGED peers

\* The loop over peers_ stops at the first match.
Forget(a) == peers' = RemoveFirst(peers, a)

\* When the driver does not delete its peer, nothing changes.
DelPeer(a) ==
    /\ pc \in UserCode /\ "del" \in UserOps
    /\ Configurable
    /\ espPeers' = espPeers \ {a}
    /\ Forget(a)
    /\ UNCHANGED <<state, failed, wifiOn, espInit, espCb, espFlight, rxVars,
                   txVars, loopVars, historyVars>>

-----------------------------------------------------------------------------
(* send().                                                                  *)

\* The checks of send() before the packet is allocated, in the code's order;
\* wellFormed is what it finds of the address and the size.
Sendable(r, wellFormed) ==
    Configurable /\ wellFormed /\ Dst[r] # Own

MayPair(r) == Dst[r] = Broadcast \/ AutoAddPeer

Accept(r) ==
    /\ outcome' = [outcome EXCEPT ![r] = "pending"]
    /\ txFree' = txFree - 1
    /\ IF HasRoom(txQueue, TxQueueCap)
       THEN /\ txQueue' = Push(txQueue, r)
            /\ UNCHANGED <<txLeaked, verdict>>
       ELSE /\ txLeaked' = txLeaked + 1
            /\ verdict' = [verdict EXCEPT ![r] = "unqueued"]
            /\ UNCHANGED txQueue

Refuse(r) ==
    /\ outcome' = [outcome EXCEPT ![r] = "refused"]
    /\ UNCHANGED <<txFree, txQueue, txLeaked, verdict>>

\* A peer added for a request stays added when the allocation then fails.
Send(r) ==
    /\ pc \in UserCode
    /\ outcome[r] = "new"
    /\ \E wellFormed, driverOk \in BOOLEAN :
         LET paired == Sendable(r, wellFormed) /\ Dst[r] \in espPeers
             pairing == /\ Sendable(r, wellFormed) /\ Dst[r] \notin espPeers
                        /\ MayPair(r)
         IN /\ IF pairing
               THEN AddPeerTo(Dst[r], driverOk)
               ELSE UNCHANGED <<espPeers, peers>>
            /\ IF paired \/ (pairing /\ PeerAddable(Dst[r], driverOk))
               THEN \/ CanAllocate(txFree) /\ Accept(r)
                    \/ CanFail(txFree) /\ Refuse(r)
               ELSE Refuse(r)
    /\ UNCHANGED <<state, failed, wifiOn, espInit, espCb, espFlight, rxVars,
                   current, loopVars>>

-----------------------------------------------------------------------------
(* loop().                                                                  *)

\* ESPHome calls loop() of a component as long as it is not marked failed,
\* whatever state_ is.
LoopBegin ==
    /\ pc = "idle" /\ ~failed
    /\ pc' = "drain"
    /\ UNCHANGED <<componentVars, driverVars, rxVars, txVars, pkt, historyVars>>

Pop(type) ==
    /\ pc = "drain" /\ rxQueue # <<>> /\ Head(rxQueue).type = type
    /\ pkt' = Head(rxQueue)
    /\ rxQueue' = Tail(rxQueue)

PopReceived ==
    /\ Pop("RECEIVED")
    /\ pc' = IF Head(rxQueue).src \in espPeers THEN "deliver" ELSE "unknown"
    /\ UNCHANGED <<componentVars, driverVars, rxFree, wifiHeld, rxLeaked, frames,
                   txVars, historyVars>>

\* The unknown-peer handlers have run; handled tells whether one of them
\* returned true.
UnknownDone ==
    /\ pc = "unknown"
    /\ \E handled, driverOk \in BOOLEAN :
         IF ~handled /\ AutoAddPeer
         THEN AddPeerTo(pkt.src, driverOk)
         ELSE UNCHANGED <<espPeers, peers>>
    /\ pc' = IF pkt.src \in espPeers' THEN "deliver" ELSE "release"
    /\ UNCHANGED <<state, failed, wifiOn, espInit, espCb, espFlight, rxVars,
                   txVars, pkt, historyVars>>

DeliverDone ==
    /\ pc = "deliver"
    /\ pc' = "release"
    /\ UNCHANGED <<componentVars, driverVars, rxVars, txVars, pkt, historyVars>>

\* The callback of the current packet is called without a test: an empty
\* std::function stops the program.
PopSent ==
    /\ Pop("SENT")
    /\ IF current = None
       THEN pc' = "release" /\ outcome' = outcome
       ELSE IF current \in Silent
       THEN pc' = "aborted" /\ outcome' = outcome
       ELSE /\ pc' = "sent"
            /\ outcome' = [outcome EXCEPT ![current] = Head(rxQueue).status]
    /\ UNCHANGED <<componentVars, driverVars, rxFree, wifiHeld, rxLeaked, frames,
                   txVars, verdict>>

\* Mutant: the packet does not go back to its pool.
FreeCurrentLeaking == txFree' = txFree /\ current' = None

\* Mutant: the pointer is not reset.
FreeCurrentKept == txFree' = txFree + 1 /\ current' = current

\* The packet goes back to its pool and the sender is free.
FreeCurrent == txFree' = txFree + 1 /\ current' = None

\* The send callback has returned.
SentDone ==
    /\ pc = "sent"
    /\ pc' = "release"
    /\ FreeCurrent
    /\ UNCHANGED <<componentVars, driverVars, rxVars, txQueue, txLeaked, pkt,
                   historyVars>>

\* Mutant: a packet that is done with is not released.
FreePacketLeaking == UNCHANGED rxFree /\ pkt' = None

FreePacket == rxFree' = rxFree + 1 /\ pkt' = None

Release ==
    /\ pc = "release"
    /\ pc' = "drain"
    /\ FreePacket
    /\ UNCHANGED <<componentVars, driverVars, rxQueue, wifiHeld, rxLeaked, frames,
                   txVars, historyVars>>

\* Mutant: the loop sends without waiting for the report of the last frame.
SenderFreeAlways == TRUE

SenderFree == current = None

Drained ==
    /\ pc = "drain" /\ rxQueue = <<>>
    /\ pc' = IF SenderFree /\ txQueue # <<>> THEN "tx" ELSE "idle"
    /\ UNCHANGED <<componentVars, driverVars, rxVars, txVars, pkt, historyVars>>

\* send_() hands the packet at the head of the queue to the driver.
TxSend ==
    /\ pc = "tx"
    /\ espInit /\ Dst[Head(txQueue)] \in espPeers
    /\ pc' = "idle"
    /\ current' = Head(txQueue)
    /\ txQueue' = Tail(txQueue)
    /\ espFlight' = Head(txQueue)
    /\ UNCHANGED <<componentVars, espInit, espCb, espPeers, rxVars, txFree, txLeaked,
                   pkt, historyVars>>

\* esp_now_send() returns an error, which it may do at any time; a request
\* without a callback is told nothing.
TxError ==
    /\ pc = "tx"
    /\ pc' = "unsent"
    /\ current' = Head(txQueue)
    /\ txQueue' = Tail(txQueue)
    /\ outcome' = [outcome EXCEPT ![Head(txQueue)] = "error"]
    /\ UNCHANGED <<componentVars, driverVars, rxVars, txFree, txLeaked, pkt,
                   verdict>>

\* The callback has returned with the error; send_() drops the packet.
UnsentDone ==
    /\ pc = "unsent"
    /\ pc' = "idle"
    /\ FreeCurrent
    /\ UNCHANGED <<componentVars, driverVars, rxVars, txQueue, txLeaked, pkt,
                   historyVars>>

LoopStep ==
    \/ Setup \/ LoopBegin
    \/ PopReceived \/ UnknownDone \/ DeliverDone
    \/ PopSent \/ SentDone
    \/ Release \/ Drained
    \/ TxSend \/ TxError \/ UnsentDone

-----------------------------------------------------------------------------
(* The Wi-Fi task.                                                          *)

\* on_data_received(), up to its push; without a packet the frame is dropped.
OnDataReceived(src) ==
    /\ Running
    /\ "recv" \in espCb /\ wifiHeld = None /\ frames < MaxFrames
    /\ frames' = frames + 1
    /\ \/ /\ CanAllocate(rxFree)
          /\ rxFree' = rxFree - 1
          /\ wifiHeld' = Received(src)
       \/ /\ CanFail(rxFree)
          /\ UNCHANGED <<rxFree, wifiHeld>>
    /\ UNCHANGED <<componentVars, driverVars, rxQueue, rxLeaked, txVars, loopVars,
                   historyVars>>

\* on_send_report(), up to its push; without a packet the report is dropped.
OnSendReport(status) ==
    /\ Running
    /\ "send" \in espCb /\ wifiHeld = None /\ espFlight # None
    /\ espFlight' = None
    /\ \/ /\ CanAllocate(rxFree)
          /\ rxFree' = rxFree - 1
          /\ wifiHeld' = Sent(espFlight, status)
          /\ verdict' = [verdict EXCEPT ![espFlight] = status]
       \/ /\ CanFail(rxFree)
          /\ UNCHANGED <<rxFree, wifiHeld>>
          /\ verdict' = [verdict EXCEPT ![espFlight] = "lost"]
    /\ UNCHANGED <<componentVars, espInit, espCb, espPeers, rxQueue, rxLeaked, frames,
                   txVars, loopVars, outcome>>

\* The push of either; what the queue does not take is lost, a report with it.
WifiPush ==
    /\ Running
    /\ wifiHeld # None
    /\ wifiHeld' = None
    /\ IF HasRoom(rxQueue, RxQueueCap)
       THEN /\ rxQueue' = Push(rxQueue, wifiHeld)
            /\ UNCHANGED <<rxLeaked, verdict>>
       ELSE /\ rxLeaked' = rxLeaked + 1
            /\ verdict' = IF wifiHeld.type = "SENT"
                          THEN [verdict EXCEPT ![wifiHeld.req] = "lost"] ELSE verdict
            /\ UNCHANGED rxQueue
    /\ UNCHANGED <<componentVars, driverVars, rxFree, frames, txVars, loopVars, outcome>>

SendReport == \E status \in {"ok", "error"} : OnSendReport(status)

UserStep ==
    \/ Enable \/ Disable \/ ApplyWifiChannel \/ WifiToggle
    \/ \E a \in AnyAddress : AddPeer(a) \/ DelPeer(a)
    \/ \E r \in Requests : Send(r)

WifiStep ==
    \/ \E src \in AnyAddress \ {Own, Broadcast} : OnDataReceived(src)
    \/ SendReport
    \/ WifiPush

Next == UserStep \/ LoopStep \/ WifiStep

Spec == Init /\ [][Next]_vars

\* ESPHome keeps calling loop(), application code returns, the Wi-Fi task is
\* scheduled, and the driver reports on every frame it accepted.
Fairness == WF_vars(LoopStep) /\ WF_vars(WifiPush) /\ WF_vars(SendReport)
FairSpec == Spec /\ Fairness

-----------------------------------------------------------------------------
(* Properties.                                                              *)

Statuses == {"ok", "error"}
Outcomes == {"new", "refused", "pending"} \cup Statuses
Verdicts == {"none", "lost", "unqueued"} \cup Statuses

\* Every variable keeps its type; in particular neither pool is ever given more
\* packets back than it has.
TypeOK ==
    /\ state \in {"OFF", "DISABLED", "ENABLED"}
    /\ failed \in BOOLEAN /\ wifiOn \in BOOLEAN
    /\ peers \in Seq(AnyAddress)
    /\ espInit \in BOOLEAN
    /\ espCb \subseteq {"recv", "send"}
    /\ espPeers \subseteq AnyAddress
    /\ espFlight \in Requests \cup {None}
    /\ rxFree \in 0..RxPoolSize
    /\ rxQueue \in Seq(Packets)
    /\ wifiHeld \in Packets \cup {None}
    /\ rxLeaked \in Nat /\ txLeaked \in Nat
    /\ frames \in 0..MaxFrames
    /\ txFree \in 0..TxPoolSize
    /\ txQueue \in Seq(Requests)
    /\ current \in Requests \cup {None}
    /\ pc \in Phases
    /\ pkt \in Packets \cup {None}
    /\ outcome \in [Requests -> Outcomes]
    /\ verdict \in [Requests -> Verdicts]

Held(x) == IF x = None THEN 0 ELSE 1

\* No receive packet is given back twice, and none leaks but those that a full queue
\* has not taken: the pool, the Wi-Fi task, the queue and the loop hold all others,
\* whatever the application's handlers do and wherever the Wi-Fi task is.
RxConservation ==
    rxFree + Held(wifiHeld) + Len(rxQueue) + Held(pkt) + rxLeaked = RxPoolSize

\* The same for send packets: the pool, the queue and current_send_packet_ hold
\* them all, also while a callback queues the next request.
TxConservation ==
    txFree + Len(txQueue) + Held(current) + txLeaked = TxPoolSize

\* The packets of a pool that its queue cannot hold.
Excess(poolSize, cap) == IF poolSize > cap THEN poolSize - cap ELSE 0

\* espnow_component.cpp:90: "the pool ensures we never exceed queue size".  It does
\* when the queue holds what the pool hands out; a ring that holds one packet less
\* loses one, once: then the pool has shrunk to what the queue holds.
LeaksBounded ==
    /\ rxLeaked <= Excess(RxPoolSize, RxQueueCap)
    /\ txLeaked <= Excess(TxPoolSize, TxQueueCap)

InCallback == pc \in {"sent", "unsent"}

\* What the place of the main thread says of the packets it works on.
PhaseInv ==
    /\ pc \in {"boot", "idle", "drain", "tx", "unsent"} => pkt = None
    /\ pc \in {"unknown", "deliver", "sent", "release"} => pkt # None
    /\ pc = "unknown" => pkt.type = "RECEIVED"
    /\ InCallback => current # None
    /\ pc = "tx" => current = None /\ txQueue # <<>>

ResourceInv == TypeOK /\ RxConservation /\ TxConservation /\ PhaseInv

IsReport(x) == x # None /\ x.type = "SENT"

\* Where the driver's answer to some frame is, or is still owed: a place in the
\* queue, in the hands of the Wi-Fi task (the next place of the queue), or behind
\* it in the driver.
ReportPlaces ==
    {i \in DOMAIN rxQueue : IsReport(rxQueue[i])}
      \cup (IF IsReport(wifiHeld) THEN {Len(rxQueue) + 1} ELSE {})
      \cup (IF espFlight # None THEN {Len(rxQueue) + 2} ELSE {})

\* loop() applies a report to current_send_packet_ without looking at its
\* address; that is right because every report in transit is the one of the
\* current packet, and carries the verdict of that packet's own frame.
ReportsAreCurrent ==
    /\ espFlight # None => espFlight = current /\ verdict[espFlight] = "none"
    /\ \A p \in {wifiHeld} \cup ToSet(rxQueue) :
         IsReport(p) => p.req = current /\ verdict[p.req] = p.status

\* The sender waits on current_send_packet_ only while exactly one report for it
\* is on its way, unless that report has been lost; and no report is on its way
\* otherwise.
CurrentAccounted ==
    /\ \A i, j \in ReportPlaces : i = j
    /\ ReportPlaces # {} => current # None /\ ~InCallback
    /\ current # None /\ ~InCallback /\ pc # "aborted" =>
         (ReportPlaces = {} <=> verdict[current] = "lost")

\* The requests send() accepted while its queue was full, whose packets leaked.
Forgotten == {r \in Requests : verdict[r] = "unqueued"}

\* A request send() accepted is in exactly one place until it has been answered:
\* once in the queue, or current; or it was forgotten at once.
AcceptedRequests ==
    /\ IsInjective(txQueue)
    /\ current \notin ToSet(txQueue)
    /\ Forgotten \cap (ToSet(txQueue) \cup {current}) = {}
    /\ \A r \in Requests :
         outcome[r] = "pending" <=>
           \/ r \in ToSet(txQueue)
           \/ r = current /\ ~InCallback
           \/ r \in Forgotten

\* What else makes the three inductive: a request in a callback has been
\* answered, and only a request that has become current has a verdict.
AnswerInv ==
    /\ current # None /\ InCallback => outcome[current] \in {"ok", "error"}
    /\ \A r \in Requests :
         r \in ToSet(txQueue) \/ outcome[r] = "new" => verdict[r] = "none"

SendInv ==
    ReportsAreCurrent /\ CurrentAccounted /\ AcceptedRequests /\ AnswerInv

\* Every peer the driver knows is one the component remembers, so that disabling
\* and enabling does not forget it, and no peer is remembered twice.
PeerTables ==
    /\ espPeers \subseteq ToSet(peers) \ {Own}
    /\ IsInjective(ConfigPeers) => IsInjective(peers)

\* espnow_component.h:108: del_peer() removes the peer "from the internal list if
\* exists".  While the driver stays up, a peer that leaves it leaves the list.
DeletedPeerForgotten ==
    [][\A a \in AnyAddress :
         a \in espPeers \ espPeers' /\ espInit' => a \notin ToSet(peers')]_vars

\* send() calls the callback only where there is one (espnow_component.h:133 lets
\* a request have none): the program is never stopped by an empty callback.
NoEmptyCallback == pc # "aborted"

Answered(r) == outcome[r] \in Statuses

\* Every accepted request is answered, unless it was forgotten, the component is marked
\* failed, the program has been stopped, or the report of some frame was lost.
SendsComplete ==
    \A r \in Requests :
      outcome[r] = "pending" ~>
        \/ Answered(r) \/ r \in Forgotten
        \/ failed \/ pc = "aborted"
        \/ \E q \in Requests : verdict[q] = "lost"

\* espnow_component.h:123-127: "call the callback when the packet is sent", "the
\* next one will not be sent until the previous one has been acknowledged or
\* failed".  Every accepted request is answered, as long as the component is not
\* marked failed.
EverySendReported ==
    \A r \in Requests : outcome[r] = "pending" ~> Answered(r) \/ failed

\* A request stops being active when its callback is called, although
\* current_send_packet_ is reset only after.
Active == IF InCallback THEN None ELSE current

\* What callers are promised: see SendService.
Service == INSTANCE SendService WITH queue <- txQueue, active <- Active

\* The component implements the send service: frames go out in the order of the
\* calls, one at a time, each request is told the fate of its own frame.
ImplementsService == Service!Spec

\* What a caller sees: the active request waits until its callback is called, the
\* others behind it; a refused one is told an error.
Line == (IF Active = None THEN <<>> ELSE <<Active>>) \o txQueue
Told == [r \in Requests |-> CASE outcome[r] \in Statuses -> outcome[r]
                              [] outcome[r] = "refused" -> "error"
                              [] OTHER -> "none"]
Callers == INSTANCE SendReports WITH waiting <- Line, told <- Told

\* The requests are told in the order of their calls, each once, also when reports
\* are lost, the driver is shut down in between or callbacks send again.
ToldInOrder == Callers!Spec

\* Every receive packet that has not leaked finds its way back to the pool once the
\* air is quiet.
PacketsReturn ==
    frames = MaxFrames ~> rxFree + rxLeaked = RxPoolSize \/ failed \/ pc = "aborted"
=============================================================================
