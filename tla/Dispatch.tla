------------------------------ MODULE Dispatch ------------------------------
(***************************************************************************)
(* Who hears a packet: the three chains of handlers of the ESP-NOW          *)
(* component (src/components/espnow), in the order of their registration,   *)
(* as loop() walks them until a handler claims the packet; and the handlers *)
(* of this repository: the automations' triggers, the packet transport and  *)
(* the SwitchC6 controller.                                                 *)
(*                                                                          *)
(* A packet is what the handlers tell apart: its source, whether it was a   *)
(* broadcast, and its text as the fields between semicolons.                *)
(***************************************************************************)
EXTENDS Naturals, FiniteSets, Sequences, SequencesExt

CONSTANTS
    Sources,       \* the addresses packets come from
    AutoAddPeer,   \* auto_add_peer_
    Triggers,      \* the triggers of on_unknown_peer, on_receive, on_broadcast
    TriggerChain,  \* and their chains, in the configuration's order
    TriggerFilter, \* has_address_ and address_: a source, or AnySource
    AnySource,
    Texts,         \* bound: the texts that are received
    MaxRegistered  \* bound: how often a controller is registered

Chains == {"unknown", "received", "broadcasted"}
Packet(src, broadcast, text) == [src |-> src, broadcast |-> broadcast, text |-> text]
Packets == {Packet(s, b, t) : s \in Sources, b \in BOOLEAN, t \in Texts}
Handlers == Triggers \cup {"transport", "controller"}

ASSUME TriggerAssumption ==
    /\ AutoAddPeer \in BOOLEAN /\ MaxRegistered \in Nat
    /\ TriggerFilter \in [Triggers -> Sources \cup {AnySource}]
    /\ TriggerChain \in [Chains -> Seq(Triggers)]
    /\ {"transport", "controller"} \cap Triggers = {}
    /\ "nobody" \notin Sources
ASSUME TextAssumption == \A t \in Texts : t \in Seq(STRING)

VARIABLES
    chain,   \* unknown_peer_handlers_, received_handlers_, broadcasted_handlers_
    paired,  \* the driver's peers
    stage,   \* "idle", or the chain that is walked
    place,   \* the next handler in it
    packet,  \* the packet in hand, or the last one
    ran,     \* history: the visits on which an automation or process_() ran
    unknown, \* history: was its source unknown when it was taken?
    reached  \* history: did it reach received or broadcasted handlers?

walk == <<stage, place>>
story == <<packet, ran, unknown, reached>>
dvars == <<chain, paired, walk, story>>

NoPacket == Packet("nobody", FALSE, <<>>)

\* The generated code registers the triggers before any component is set up.
Init ==
    /\ chain = TriggerChain
    /\ paired = {}
    /\ stage = "idle" /\ place = 1
    /\ packet = NoPacket /\ ran = <<>> /\ unknown = FALSE /\ reached = FALSE

Times(h, s) == Cardinality({i \in DOMAIN s : s[i] = h})

\* Handler h was called at place i of chain k.
Visit(h, k, i) == [handler |-> h, chain |-> k, place |-> i]

\* Mutant: a handler registers ahead of those before it.
AtFront(handlers, h) == <<h>> \o handlers

AtBack(handlers, h) == Append(handlers, h)

\* The transport's setup() and the controller's register_handlers(), which
\* register with two chains and do not look whether they are there already.  A
\* handler that registers another one would change the chain while it is walked.
RegisterBoth(h) ==
    /\ stage = "idle"
    /\ chain' = [k \in Chains |->
                   IF k = "unknown" THEN chain[k] ELSE AtBack(chain[k], h)]
    /\ UNCHANGED <<paired, walk, story>>

TransportSetup ==
    /\ packet = NoPacket /\ "transport" \notin ToSet(chain["received"])
    /\ RegisterBoth("transport")

RegisterController ==
    /\ Times("controller", chain["received"]) < MaxRegistered
    /\ RegisterBoth("controller")

\* The controller's parse_data(): blank texts, texts without a separator and
\* texts that start with one are refused, all others accepted.
Valid(text) == Len(text) > 1 /\ text[1] # ""

\* Mutant: the controller claims every packet.
ClaimsAll(h, p) == h = "controller"

\* Does the handler return true?
Claims(h, p) == h = "controller" /\ Valid(p.text)

\* Does the handler do anything with the packet?  The transport takes none of
\* no bytes; a trigger compares the source with its address, if it has one.
Acts(h, p) ==
    CASE h = "transport" -> p.text # <<>>
      [] h = "controller" -> FALSE
      [] OTHER -> TriggerFilter[h] \in {AnySource, p.src}

ChainOf(p) == IF p.broadcast THEN "broadcasted" ELSE "received"

\* The packet goes to the chain when the driver knows its source.
Lookup(peers, p) ==
    IF p.src \in peers THEN stage' = ChainOf(p) /\ reached' = TRUE
    ELSE stage' = "idle" /\ reached' = FALSE

Take(p) ==
    /\ stage = "idle"
    /\ packet' = p /\ ran' = <<>> /\ place' = 1
    /\ unknown' = (p.src \notin paired)
    /\ IF unknown' THEN stage' = "unknown" /\ reached' = FALSE ELSE Lookup(paired, p)
    /\ UNCHANGED <<chain, paired>>

\* One handler; an automation may pair the source or delete it.
Call ==
    /\ stage # "idle" /\ place <= Len(chain[stage])
    /\ LET h == chain[stage][place]
       IN /\ IF Acts(h, packet)
             THEN /\ ran' = Append(ran, Visit(h, stage, place))
                  /\ paired' \in IF h \in Triggers
                                 THEN {paired, paired \cup {packet.src}, paired \ {packet.src}}
                                 ELSE {paired}
             ELSE UNCHANGED <<ran, paired>>
          /\ place' = IF Claims(h, packet) THEN Len(chain[stage]) + 1 ELSE place + 1
    /\ UNCHANGED <<chain, stage, packet, unknown, reached>>

\* The triggers of unknown peers never claim a packet, so that its source is
\* paired, if the driver can, when the component adds peers.
UnknownPeers(p) == IF AutoAddPeer THEN {paired, paired \cup {p.src}} ELSE {paired}

UnknownDone ==
    /\ stage = "unknown" /\ place > Len(chain[stage])
    /\ paired' \in UnknownPeers(packet)
    /\ Lookup(paired', packet)
    /\ place' = 1
    /\ UNCHANGED <<chain, packet, ran, unknown>>

\* Mutant: the walk of the next chain starts where this one ended.
DoneHere ==
    /\ stage \in {"received", "broadcasted"} /\ place > Len(chain[stage])
    /\ stage' = "idle"
    /\ UNCHANGED <<chain, paired, place, story>>

Done ==
    /\ stage \in {"received", "broadcasted"} /\ place > Len(chain[stage])
    /\ stage' = "idle" /\ place' = 1
    /\ UNCHANGED <<chain, paired, story>>

Next ==
    \/ TransportSetup \/ RegisterController
    \/ \E p \in Packets : Take(p)
    \/ Call \/ UnknownDone \/ Done

Spec == Init /\ [][Next]_dvars

-----------------------------------------------------------------------------
(* Properties.                                                              *)

Visits == [handler : Handlers, chain : Chains, place : Nat]

\* Every variable keeps its type, and a chain is never walked past its end by
\* more than the step that ends it.
TypeOK ==
    /\ chain \in [Chains -> Seq(Handlers)]
    /\ paired \subseteq Sources
    /\ stage \in Chains \cup {"idle"}
    /\ place \in 1..(IF stage = "idle" THEN 1 ELSE Len(chain[stage]) + 1)
    /\ packet \in Packets \cup {NoPacket}
    /\ ran \in Seq(Visits)
    /\ unknown \in BOOLEAN /\ reached \in BOOLEAN

\* The visits to the configured triggers of chain k that ask for the packet.
Asks(h) == TriggerFilter[h] \in {AnySource, packet.src}
Wanted(k) == {Visit(TriggerChain[k][i], k, i) :
                 i \in {j \in DOMAIN TriggerChain[k] : Asks(TriggerChain[k][j])}}

\* The handlers of unknown peers come first, then those of the packet's chain,
\* each in the order of the chain.
Before(v, w) ==
    \/ v.chain = w.chain /\ v.place < w.place
    \/ v.chain = "unknown" /\ w.chain # "unknown"

\* When a packet has been handled, the automations that ask for it have run, each
\* once and in the configuration's order, whatever controllers there are and
\* whenever they and the transport were registered: no controller can keep a
\* packet from an automation.  Those of unknown peers have run for exactly the
\* packets whose source was unknown, the others only if the source was paired
\* in the end, and whatever the automations before them did to the peers.
AutomationsSeeAll ==
    stage = "idle" /\ packet # NoPacket =>
      /\ unknown \/ reached
      /\ \A i, j \in DOMAIN ran : i < j => Before(ran[i], ran[j])
      /\ {v \in ToSet(ran) : v.handler \in Triggers} =
           (IF unknown THEN Wanted("unknown") ELSE {})
             \cup (IF reached THEN Wanted(ChainOf(packet)) ELSE {})

\* The transport processes, once, every packet of at least a byte that reaches
\* its chain, unless the text is one the controller understands and the
\* controller was registered first; then it does not process it at all.
TransportSees ==
    stage = "idle" /\ reached =>
      LET handlers == chain[ChainOf(packet)]
          behind == \E i, j \in DOMAIN handlers :
                      i < j /\ handlers[i] = "controller" /\ handlers[j] = "transport"
          runs == {i \in DOMAIN ran : ran[i].handler = "transport"}
      IN packet.text # <<>> /\ "transport" \in ToSet(handlers) =>
           IF Valid(packet.text) /\ behind THEN runs = {} ELSE \E i \in DOMAIN ran : runs = {i}
=============================================================================
