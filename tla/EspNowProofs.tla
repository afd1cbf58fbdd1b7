---------------------------- MODULE EspNowProofs ----------------------------
(***************************************************************************)
(* Theorems about the ESP-NOW component, for every number of addresses,     *)
(* requests, packets and frames.                                            *)
(***************************************************************************)
EXTENDS EspNow, SequenceTheorems, WellFoundedInduction, TLAPS

-----------------------------------------------------------------------------
(* Facts about the sequence operators the model uses.                       *)

\* A set of natural numbers has a least element: what Min returns exists.
LEMMA LeastElement ==
    ASSUME NEW T, T \subseteq Nat, T # {}
    PROVE  \E i \in T : \A j \in T : i =< j
<1> DEFINE R == {ss \in Nat \X Nat : ss[1] < ss[2]}
<1>1. IsWellFoundedOn(R, Nat)
  BY NatLessThanWellFounded DEF OpToRel
<1>2. PICK i \in T : \A j \in T : <<j, i>> \notin R
  BY <1>1, WFMin
<1>3. ASSUME NEW j \in T PROVE ~ (j < i)
  BY <1>2, <<j, i>> \in Nat \X Nat
<1>4. ASSUME NEW j \in T PROVE i =< j
  BY <1>3
<1> QED
  BY <1>4

\* Where RemoveFirst(s, e) cuts the sequence, when e occurs in it.
LEMMA RemoveFirstIndex ==
    ASSUME NEW S, NEW s \in Seq(S), NEW e, e \in ToSet(s)
    PROVE  \E i \in 1..Len(s) :
             /\ s[i] = e
             /\ RemoveFirst(s, e) = SubSeq(s, 1, i-1) \o SubSeq(s, i+1, Len(s))
<1> DEFINE I == {i \in 1..Len(s) : s[i] = e}
<1>0. I \subseteq Nat /\ I # {}
  BY DEF ToSet
<1>1. PICK i \in I : \A j \in I : i =< j
  BY <1>0, LeastElement
<1>2. Min(I) \in I
  BY <1>1 DEF Min
<1> QED
  BY <1>2 DEF RemoveFirst, RemoveAt, SelectInSeq, ToSet

\* What erasing the first match leaves: every other element, and nothing new; of
\* a list without repetitions, exactly the other elements.
LEMMA RemoveFirstProperties ==
    ASSUME NEW S, NEW s \in Seq(S), NEW e
    PROVE  /\ RemoveFirst(s, e) \in Seq(S)
           /\ ToSet(s) \ {e} \subseteq ToSet(RemoveFirst(s, e))
           /\ IsInjective(s) => /\ IsInjective(RemoveFirst(s, e))
                                /\ e \notin ToSet(RemoveFirst(s, e))
<1>1. CASE e \notin ToSet(s)
  <2>1. RemoveFirst(s, e) = s
    BY <1>1 DEF RemoveFirst, ToSet
  <2> QED
    BY <1>1, <2>1
<1>2. CASE e \in ToSet(s)
  <2> DEFINE t == RemoveFirst(s, e)
  <2>1. PICK i \in 1..Len(s) :
          s[i] = e /\ t = SubSeq(s, 1, i-1) \o SubSeq(s, i+1, Len(s))
    BY <1>2, RemoveFirstIndex
  <2> HIDE DEF t
  <2>2. /\ t \in Seq(S) /\ Len(t) = Len(s) - 1
        /\ \A j \in 1..Len(t) : t[j] = IF j < i THEN s[j] ELSE s[j+1]
    <3> DEFINE front == SubSeq(s, 1, i-1)
               back == SubSeq(s, i+1, Len(s))
    <3>1. /\ front \in Seq(S) /\ Len(front) = i-1
          /\ \A j \in 1..i-1 : front[j] = s[j]
      BY SubSeqProperties
    <3>2. /\ back \in Seq(S) /\ Len(back) = Len(s) - i
          /\ \A j \in 1..Len(s)-i : back[j] = s[i+j]
      BY SubSeqProperties
    <3> HIDE DEF front, back
    <3>3. /\ t \in Seq(S) /\ Len(t) = Len(front) + Len(back)
          /\ \A j \in 1..Len(front) + Len(back) :
               t[j] = IF j <= Len(front) THEN front[j] ELSE back[j - Len(front)]
      <4>1. t = front \o back
        BY <2>1 DEF front, back
      <4>2. front \in Seq(S) /\ back \in Seq(S)
        BY <3>1, <3>2
      <4>3. /\ front \o back \in Seq(S)
            /\ Len(front \o back) = Len(front) + Len(back)
            /\ \A j \in 1..Len(front) + Len(back) : (front \o back)[j] =
                 IF j <= Len(front) THEN front[j] ELSE back[j - Len(front)]
        BY <4>2, ConcatProperties, Zenon
      <4> HIDE DEF t
      <4> QED
        BY <4>1, <4>3, Zenon
    <3>4. Len(t) = Len(s) - 1
      BY <3>1, <3>2, <3>3
    <3>5. ASSUME NEW j \in 1..Len(t) PROVE t[j] = IF j < i THEN s[j] ELSE s[j+1]
      <4>1. CASE j < i
        BY <3>1, <3>3, <4>1
      <4>2. CASE j >= i
        <5>1. ~ (j <= Len(front)) /\ j - Len(front) \in 1..Len(s)-i
          BY <3>1, <3>4, <4>2
        <5>2. t[j] = back[j - Len(front)]
          BY <3>3, <5>1, Zenon
        <5> QED
          BY <3>1, <3>2, <5>1, <5>2
      <4> QED
        BY <4>1, <4>2
    <3> QED
      BY <3>3, <3>4, <3>5
  <2>3. ASSUME NEW x \in ToSet(s) \ {e} PROVE x \in ToSet(t)
    <3>1. PICK j \in 1..Len(s) : s[j] = x
      BY DEF ToSet
    <3>2. j # i
      BY <2>1, <3>1
    <3>3. CASE j < i
      BY <2>2, <3>1, <3>3 DEF ToSet
    <3>4. CASE j > i
      <4>1. j-1 \in 1..Len(t) /\ t[j-1] = x
        BY <2>2, <3>1, <3>4
      <4> QED
        BY <4>1, <2>2 DEF ToSet
    <3> QED
      BY <3>2, <3>3, <3>4
  <2>4. ASSUME IsInjective(s) PROVE IsInjective(t) /\ e \notin ToSet(t)
    <3> DEFINE old(j) == IF j < i THEN j ELSE j+1
    <3>1. \A a, b \in 1..Len(s) : s[a] = s[b] => a = b
      BY <2>4 DEF IsInjective
    <3>2. \A j \in 1..Len(t) : old(j) \in (1..Len(s)) \ {i} /\ t[j] = s[old(j)]
      BY <2>2
    <3>3. \A a, b \in 1..Len(t) : t[a] = t[b] => a = b
      <4>1. \A a, b \in 1..Len(t) : t[a] = t[b] => old(a) = old(b)
        BY <3>1, <3>2
      <4> QED
        BY <4>1
    <3>4. \A j \in 1..Len(t) : t[j] # e
      <4> SUFFICES ASSUME NEW j \in 1..Len(t), t[j] = e PROVE FALSE
        OBVIOUS
      <4>1. /\ old(j) \in 1..Len(s) /\ old(j) # i /\ s[old(j)] = e
            /\ i \in 1..Len(s) /\ s[i] = e
        BY <2>1, <3>2
      <4> HIDE DEF old
      <4> QED
        BY <3>1, <4>1
    <3>5. DOMAIN t = 1..Len(t)
      BY <2>2
    <3>6. IsInjective(t)
      BY <3>3, <3>5 DEF IsInjective
    <3>7. e \notin ToSet(t)
      BY <3>4, <3>5 DEF ToSet
    <3> QED
      BY <3>6, <3>7
  <2> QED
    BY <2>2, <2>3, <2>4 DEF t
<1> QED
  BY <1>1, <1>2

\* Appending an element adds it to the elements, and repeats none that is new.
LEMMA AppendElements ==
    ASSUME NEW S, NEW s \in Seq(S), NEW e \in S
    PROVE  /\ ToSet(Append(s, e)) = ToSet(s) \cup {e}
           /\ IsInjective(s) /\ e \notin ToSet(s) => IsInjective(Append(s, e))
<1> DEFINE t == Append(s, e)
<1>1. /\ t \in Seq(S) /\ Len(t) = Len(s) + 1 /\ t[Len(s)+1] = e
      /\ \A i \in 1..Len(s) : t[i] = s[i]
  BY AppendProperties
<1>2. DOMAIN s = 1..Len(s) /\ DOMAIN t = 1..Len(s)+1 /\ Len(s) \in Nat
  BY <1>1
<1> HIDE DEF t
<1>3. ToSet(t) = ToSet(s) \cup {e}
  BY <1>1, <1>2 DEF ToSet
<1>4. ASSUME IsInjective(s), e \notin ToSet(s) PROVE IsInjective(t)
  <2>1. \A i \in 1..Len(s) : s[i] # e
    BY <1>2, <1>4 DEF ToSet
  <2>2. \A i, j \in 1..Len(s) : s[i] = s[j] => i = j
    BY <1>2, <1>4 DEF IsInjective
  <2> QED
    BY <1>1, <1>2, <2>1, <2>2 DEF IsInjective
<1> QED
  BY <1>3, <1>4 DEF t

\* Taking the head off a sequence without repetitions removes just that element.
LEMMA TailElements ==
    ASSUME NEW S, NEW s \in Seq(S), s # <<>>
    PROVE  /\ Head(s) \in ToSet(s) /\ ToSet(Tail(s)) \subseteq ToSet(s)
           /\ ToSet(s) \ {Head(s)} \subseteq ToSet(Tail(s))
           /\ IsInjective(s) => /\ IsInjective(Tail(s))
                                /\ Head(s) \notin ToSet(Tail(s))
<1> DEFINE t == Tail(s)
<1>1. /\ t \in Seq(S) /\ Len(t) = Len(s) - 1
      /\ \A i \in 1..Len(t) : t[i] = s[i+1]
  BY HeadTailProperties
<1>2. /\ Head(s) = s[1] /\ Len(s) \in Nat /\ 1 \in 1..Len(s)
      /\ DOMAIN s = 1..Len(s) /\ DOMAIN t = 1..Len(s)-1
  BY <1>1
<1> HIDE DEF t
<1>3. Head(s) \in ToSet(s)
  BY <1>2 DEF ToSet
<1>4. ToSet(t) \subseteq ToSet(s)
  BY <1>1, <1>2 DEF ToSet
<1>5. ASSUME NEW x \in ToSet(s), x # Head(s) PROVE x \in ToSet(t)
  <2>1. PICK i \in 1..Len(s) : s[i] = x
    BY <1>2 DEF ToSet
  <2>2. i-1 \in 1..Len(s)-1 /\ t[i-1] = x
    BY <1>1, <1>2, <1>5, <2>1
  <2> QED
    BY <1>2, <2>2 DEF ToSet
<1>6. ASSUME IsInjective(s) PROVE IsInjective(t) /\ Head(s) \notin ToSet(t)
  <2>1. \A i, j \in 1..Len(s) : s[i] = s[j] => i = j
    BY <1>2, <1>6 DEF IsInjective
  <2>2. \A i \in 1..Len(s)-1 : i+1 \in 1..Len(s) /\ i+1 # 1 /\ t[i] = s[i+1]
    BY <1>1, <1>2
  <2>3. ASSUME NEW i \in 1..Len(s)-1, NEW j \in 1..Len(s)-1, t[i] = t[j] PROVE i = j
    <3>1. i+1 = j+1
      BY <2>1, <2>2, <2>3
    <3> QED
      BY <3>1
  <2>4. \A i \in 1..Len(s)-1 : t[i] # s[1]
    BY <1>2, <2>1, <2>2
  <2>5. IsInjective(t)
    BY <1>2, <2>3 DEF IsInjective
  <2>6. Head(s) \notin ToSet(t)
    BY <1>2, <2>4 DEF ToSet
  <2> QED
    BY <2>5, <2>6
<1> QED
  BY <1>3, <1>4, <1>5, <1>6 DEF t

-----------------------------------------------------------------------------
(* Facts about packets.                                                     *)

\* The operators that name one assignment or one test of the code.
USE DEF FreeCurrent, FreePacket, SenderFree, Remember, Forget, Push, HasRoom, Forgotten

\* The fields of the packets of the receive queue.
LEMMA PacketFacts ==
    /\ \A a \in AnyAddress :
         Received(a) \in Packets /\ Received(a).type = "RECEIVED"
    /\ \A r \in Requests, status \in Statuses :
         /\ Sent(r, status) \in Packets /\ Sent(r, status).type = "SENT"
         /\ Sent(r, status).req = r /\ Sent(r, status).status = status
    /\ \A p \in Packets :
         /\ p # None
         /\ p.type \in {"RECEIVED", "SENT"}
         /\ p.type = "RECEIVED" => p.src \in AnyAddress
         /\ p.type = "SENT" => p.req \in Requests /\ p.status \in Statuses
<1>1. \A a \in AnyAddress :
        Received(a) \in Packets /\ Received(a).type = "RECEIVED"
  BY DEF Packets, Received
<1>2. ASSUME NEW r \in Requests, NEW status \in Statuses
      PROVE  /\ Sent(r, status) \in Packets /\ Sent(r, status).type = "SENT"
             /\ Sent(r, status).req = r /\ Sent(r, status).status = status
  BY DEF Packets, Sent, Statuses
<1>3. ASSUME NEW p \in Packets
      PROVE  /\ p # None
             /\ p.type \in {"RECEIVED", "SENT"}
             /\ p.type = "RECEIVED" => p.src \in AnyAddress
             /\ p.type = "SENT" => p.req \in Requests /\ p.status \in Statuses
  <2>1. p # None
    BY RequestAssumption
  <2>2. CASE \E a \in AnyAddress : p = Received(a)
    BY <2>1, <2>2 DEF Received
  <2>3. CASE \E r \in Requests, status \in Statuses : p = Sent(r, status)
    BY <2>1, <2>3 DEF Sent
  <2> QED
    BY <2>2, <2>3 DEF Packets, Statuses
<1> QED
  BY <1>1, <1>2, <1>3

-----------------------------------------------------------------------------
(* Types and the conservation of packets.                                   *)

\* The sizes are natural numbers.
LEMMA PoolFacts ==
    /\ RxPoolSize \in Nat /\ RxQueueCap \in Nat
    /\ TxPoolSize \in Nat /\ TxQueueCap \in Nat /\ MaxFrames \in Nat
    /\ RxPoolSize > 0 /\ TxPoolSize > 0
BY PoolAssumption

\* The terms of the two packet counts are natural numbers.
LEMMA CountFacts ==
    ASSUME ResourceInv
    PROVE  /\ rxFree \in Nat /\ Len(rxQueue) \in Nat
           /\ Held(wifiHeld) \in {0, 1} /\ Held(pkt) \in {0, 1}
           /\ txFree \in Nat /\ Len(txQueue) \in Nat /\ Held(current) \in {0, 1}
           /\ rxLeaked \in Nat /\ txLeaked \in Nat
BY PoolFacts DEF ResourceInv, TypeOK, Held

\* Before setup() both pools are full and nothing is being processed.
LEMMA ResourceInit == Init => ResourceInv
<1> SUFFICES ASSUME Init PROVE ResourceInv
  OBVIOUS
<1>1. TypeOK
  <2>1. /\ peers \in Seq(AnyAddress)
        /\ rxQueue \in Seq(Packets) /\ txQueue \in Seq(Requests)
    BY AddressAssumption DEF Init
  <2>2. outcome \in [Requests -> Outcomes] /\ verdict \in [Requests -> Verdicts]
    BY DEF Init, Outcomes, Verdicts
  <2>3. rxFree \in 0..RxPoolSize /\ txFree \in 0..TxPoolSize /\ frames \in 0..MaxFrames
    BY PoolFacts DEF Init
  <2> QED
    BY <2>1, <2>2, <2>3 DEF Init, TypeOK, Phases
<1>2. RxConservation /\ TxConservation
  BY PoolAssumption DEF Init, RxConservation, TxConservation, Held
<1>3. PhaseInv
  BY DEF Init, PhaseInv, InCallback
<1> QED
  BY <1>1, <1>2, <1>3 DEF ResourceInv

\* enable_() touches neither the pools nor the queues, and gives the driver
\* only peers of the list.
LEMMA EnableResources ==
    ASSUME ResourceInv, NEW stage \in Stages, Enable_(stage),
           UNCHANGED pkt,
           pc' = pc \/ (pc = "boot" /\ pc' = "idle")
    PROVE  ResourceInv'
<1>1. ToSet(peers) \subseteq AnyAddress
  BY DEF ResourceInv, TypeOK, ToSet
<1> QED
  BY <1>1 DEF Enable_, Stages, ResourceInv, TypeOK, RxConservation,
       TxConservation, PhaseInv, InCallback, Held, rxVars, txVars, historyVars, Phases

\* A step that leaves the packets, the queues and the loop alone keeps the counts.
LEMMA CountsKept ==
    ASSUME ResourceInv, UNCHANGED <<rxVars, txVars, loopVars>>
    PROVE  RxConservation' /\ TxConservation' /\ PhaseInv'
BY DEF ResourceInv, RxConservation, TxConservation, PhaseInv, InCallback, Held, rxVars, txVars,
   loopVars

\* add_peer() keeps the types of the two peer tables.
LEMMA AddPeerTypes ==
    ASSUME TypeOK, NEW a \in AnyAddress, NEW driverOk \in BOOLEAN,
           AddPeerTo(a, driverOk)
    PROVE  peers' \in Seq(AnyAddress) /\ espPeers' \subseteq AnyAddress
<1>1. CASE PeerAddable(a, driverOk)
  <2>1. Append(peers, a) \in Seq(AnyAddress)
    BY AppendProperties DEF TypeOK
  <2> QED
    BY <1>1, <2>1 DEF AddPeerTo, TypeOK
<1>2. CASE ~ PeerAddable(a, driverOk)
  BY <1>2 DEF AddPeerTo, TypeOK
<1> QED
  BY <1>1, <1>2

\* Taking the packet at the head of the queue.
LEMMA PopResources ==
    ASSUME ResourceInv, NEW type, Pop(type)
    PROVE  /\ Head(rxQueue) \in Packets
           /\ rxQueue' \in Seq(Packets) /\ Len(rxQueue') = Len(rxQueue) - 1
           /\ pkt = None /\ pkt' = Head(rxQueue) /\ pkt' # None
<1>1. rxQueue \in Seq(Packets) /\ rxQueue # <<>>
  BY DEF ResourceInv, TypeOK, Pop
<1>2. /\ Head(rxQueue) \in Packets /\ Tail(rxQueue) \in Seq(Packets)
      /\ Len(Tail(rxQueue)) = Len(rxQueue) - 1
  BY <1>1, HeadTailProperties
<1> QED
  BY <1>2, PacketFacts DEF Pop, ResourceInv, PhaseInv

\* Every step, of any thread, keeps the packet counts and the loop's phases.
LEMMA ResourceStep == ResourceInv /\ [Next]_vars => ResourceInv'
<1> SUFFICES ASSUME ResourceInv, [Next]_vars PROVE ResourceInv'
  OBVIOUS
<1> USE DEF componentVars, driverVars, rxVars, txVars, loopVars, historyVars
<1>1. CASE Setup
  <2>1. ASSUME NEW stage \in Stages, Enable_(stage) PROVE ResourceInv'
    BY <1>1, <2>1, EnableResources DEF Setup
  <2>2. CASE ~EnableOnBoot
    BY <1>1, <2>2 DEF Setup, ResourceInv, TypeOK, RxConservation, TxConservation,
         PhaseInv, InCallback, Phases, Held
  <2> QED
    BY <1>1, <2>1, <2>2 DEF Setup
<1>2. CASE Enable
  BY <1>2, EnableResources DEF Enable
<1>3. CASE Disable
  <2>1. RxConservation' /\ TxConservation' /\ PhaseInv'
    BY <1>3, CountsKept DEF Disable
  <2>2. verdict' \in [Requests -> Verdicts]
    BY <1>3 DEF Disable, ResourceInv, TypeOK, Verdicts
  <2>3. TypeOK'
    BY <1>3, <2>2 DEF Disable, ResourceInv, TypeOK
  <2> QED
    BY <2>1, <2>3 DEF ResourceInv
<1>4. CASE ApplyWifiChannel \/ WifiToggle
  <2>1. RxConservation' /\ TxConservation' /\ PhaseInv'
    BY <1>4, CountsKept DEF ApplyWifiChannel, WifiToggle
  <2>2. TypeOK'
    BY <1>4 DEF ApplyWifiChannel, WifiToggle, ResourceInv, TypeOK
  <2> QED
    BY <2>1, <2>2 DEF ResourceInv
<1>5. ASSUME NEW a \in AnyAddress, AddPeer(a) PROVE ResourceInv'
  <2>1. peers' \in Seq(AnyAddress) /\ espPeers' \subseteq AnyAddress
    BY <1>5, AddPeerTypes DEF AddPeer, ResourceInv
  <2>2. RxConservation' /\ TxConservation' /\ PhaseInv'
    BY <1>5, CountsKept DEF AddPeer
  <2>3. TypeOK'
    BY <1>5, <2>1 DEF AddPeer, ResourceInv, TypeOK
  <2> QED
    BY <2>2, <2>3 DEF ResourceInv
<1>6. ASSUME NEW a \in AnyAddress, DelPeer(a) PROVE ResourceInv'
  <2>1. peers' \in Seq(AnyAddress)
    BY <1>6, RemoveFirstProperties DEF DelPeer, ResourceInv, TypeOK
  <2>2. RxConservation' /\ TxConservation' /\ PhaseInv'
    BY <1>6, CountsKept DEF DelPeer
  <2>3. TypeOK'
    BY <1>6, <2>1 DEF DelPeer, ResourceInv, TypeOK
  <2> QED
    BY <2>2, <2>3 DEF ResourceInv
<1>7. ASSUME NEW r \in Requests, Send(r) PROVE ResourceInv'
  <2>1. peers' \in Seq(AnyAddress) /\ espPeers' \subseteq AnyAddress
    <3>1. Dst[r] \in AnyAddress
      BY AddressAssumption
    <3> QED
      BY <1>7, <3>1, AddPeerTypes DEF Send, ResourceInv, TypeOK
  <2>2. \/ CanAllocate(txFree) /\ Accept(r)
        \/ Refuse(r)
    BY <1>7 DEF Send
  <2>3. CASE CanAllocate(txFree) /\ Accept(r)
    <3>1. /\ txFree > 0 /\ txFree' = txFree - 1
          /\ \/ txQueue' = Append(txQueue, r) /\ txLeaked' = txLeaked
             \/ txQueue' = txQueue /\ txLeaked' = txLeaked + 1
          /\ UNCHANGED <<pc, pkt, current, rxQueue, rxFree, rxLeaked, wifiHeld>>
      BY <1>7, <2>3 DEF Send, Accept, CanAllocate
    <3>2. /\ Append(txQueue, r) \in Seq(Requests) /\ txQueue \in Seq(Requests)
          /\ Len(Append(txQueue, r)) = Len(txQueue) + 1
      BY AppendProperties DEF ResourceInv, TypeOK
    <3>3. /\ txQueue' \in Seq(Requests) /\ txLeaked' \in Nat
          /\ Len(txQueue') + txLeaked' = Len(txQueue) + txLeaked + 1
      <4>1. CASE txQueue' = Append(txQueue, r) /\ txLeaked' = txLeaked
        BY <3>2, <4>1, CountFacts
      <4>2. CASE txQueue' = txQueue /\ txLeaked' = txLeaked + 1
        BY <3>2, <4>2, CountFacts
      <4> QED
        BY <3>1, <4>1, <4>2
    <3>4. txFree' \in 0..TxPoolSize /\ TxConservation'
      <4>1. TxConservation /\ txFree \in 0..TxPoolSize /\ Len(txQueue') \in Nat
        BY <3>3 DEF ResourceInv, TypeOK
      <4> QED
        <5>1. Held(current') = Held(current)
          BY <3>1
        <5>2. TxConservation'
          <6>1. /\ txFree \in Nat /\ Len(txQueue) \in Nat /\ txLeaked \in Nat
                /\ Held(current) \in Nat /\ txLeaked' \in Nat
                /\ txFree + Len(txQueue) + Held(current) + txLeaked = TxPoolSize
            BY <3>3, <4>1, CountFacts DEF TxConservation
          <6>2. txFree' + Len(txQueue') + Held(current') + txLeaked' = TxPoolSize
            BY <3>1, <3>3, <4>1, <5>1, <6>1
          <6> QED
            BY <6>2 DEF TxConservation
        <5>3. txFree' \in 0..TxPoolSize
          BY <3>1, <4>1, PoolFacts
        <5> QED
          BY <5>2, <5>3
    <3>5. txQueue # <<>> => txQueue' # <<>>
      BY <3>1, <3>2
    <3>6. PhaseInv' /\ RxConservation'
      BY <3>1, <3>5 DEF ResourceInv, PhaseInv, RxConservation, Held, InCallback
    <3>7. outcome' \in [Requests -> Outcomes] /\ verdict' \in [Requests -> Verdicts]
      BY <2>3 DEF Accept, ResourceInv, TypeOK, Outcomes, Verdicts
    <3>8. TypeOK'
      BY <1>7, <2>1, <3>1, <3>3, <3>4, <3>7 DEF Send, ResourceInv, TypeOK
    <3> QED
      BY <3>4, <3>6, <3>8 DEF ResourceInv
  <2>4. CASE Refuse(r)
    <3>1. UNCHANGED <<pc, pkt, current, rxQueue, rxFree, rxLeaked, txQueue, txFree, txLeaked>>
      BY <1>7, <2>4 DEF Send, Refuse
    <3>2. UNCHANGED wifiHeld
      BY <1>7 DEF Send, rxVars
    <3>5. RxConservation' /\ TxConservation'
      BY <3>1, <3>2 DEF ResourceInv, RxConservation, TxConservation, Held
    <3>6. PhaseInv'
      BY <3>1 DEF ResourceInv, PhaseInv, InCallback
    <3>3. outcome' \in [Requests -> Outcomes]
      BY <1>7, <2>4 DEF Send, Refuse, ResourceInv, TypeOK, Outcomes
    <3>4. TypeOK'
      BY <1>7, <2>1, <2>4, <3>1, <3>3 DEF Send, Refuse, ResourceInv, TypeOK
    <3> QED
      BY <3>4, <3>5, <3>6 DEF ResourceInv
  <2> QED
    BY <2>2, <2>3, <2>4
<1>8. CASE LoopBegin \/ DeliverDone \/ Drained
  <2>1. pc' \in Phases /\ PhaseInv'
    BY <1>8 DEF LoopBegin, DeliverDone, Drained, ResourceInv, PhaseInv, InCallback, Phases
  <2> QED
    BY <1>8, <2>1 DEF LoopBegin, DeliverDone, Drained, ResourceInv, TypeOK,
         RxConservation, TxConservation, Held
<1>9. CASE PopReceived
  <2>1. pc' \in Phases /\ PhaseInv'
    BY <1>9, PopResources DEF PopReceived, Pop, ResourceInv, PhaseInv, InCallback, Phases
  <2>2. /\ rxQueue' \in Seq(Packets) /\ pkt' \in Packets
        /\ RxConservation'
    <3>1. /\ rxQueue' \in Seq(Packets) /\ Len(rxQueue') = Len(rxQueue) - 1
          /\ pkt = None /\ pkt' \in Packets /\ pkt' # None
          /\ UNCHANGED <<rxFree, wifiHeld, rxLeaked>>
      BY <1>9, PopResources DEF PopReceived
    <3> QED
      BY <3>1, CountFacts DEF ResourceInv, RxConservation, Held
  <2> QED
    BY <1>9, <2>1, <2>2 DEF PopReceived, ResourceInv, TypeOK, TxConservation, Held
<1>10. CASE UnknownDone
  <2>1. pkt.src \in AnyAddress
    BY <1>10, PacketFacts DEF UnknownDone, ResourceInv, TypeOK, PhaseInv
  <2>2. peers' \in Seq(AnyAddress) /\ espPeers' \subseteq AnyAddress
    BY <1>10, <2>1, AddPeerTypes DEF UnknownDone, ResourceInv, TypeOK
  <2> QED
    BY <1>10, <2>2 DEF UnknownDone, ResourceInv, TypeOK, Phases, RxConservation,
         TxConservation, PhaseInv, InCallback, Held
<1>11. CASE PopSent
  <2>1. Head(rxQueue).status \in Statuses
    BY <1>11, PopResources, PacketFacts DEF PopSent, Pop
  <2>2. outcome' \in [Requests -> Outcomes]
    BY <1>11, <2>1 DEF PopSent, ResourceInv, TypeOK, Outcomes
  <2>3. pc' \in Phases /\ PhaseInv'
    BY <1>11, PopResources DEF PopSent, Pop, ResourceInv, PhaseInv, InCallback, Phases
  <2>4. /\ rxQueue' \in Seq(Packets) /\ pkt' \in Packets
        /\ RxConservation'
    <3>1. /\ rxQueue' \in Seq(Packets) /\ Len(rxQueue') = Len(rxQueue) - 1
          /\ pkt = None /\ pkt' \in Packets /\ pkt' # None
          /\ UNCHANGED <<rxFree, wifiHeld, rxLeaked>>
      BY <1>11, PopResources DEF PopSent
    <3> QED
      BY <3>1, CountFacts DEF ResourceInv, RxConservation, Held
  <2> QED
    BY <1>11, <2>2, <2>3, <2>4 DEF PopSent, ResourceInv, TypeOK, TxConservation, Held
<1>12. CASE SentDone \/ UnsentDone
  <2>1. /\ current # None /\ UNCHANGED <<txQueue, txLeaked>>
        /\ txFree' = txFree + 1 /\ current' = None
    BY <1>12 DEF SentDone, UnsentDone, ResourceInv, PhaseInv, InCallback
  <2>2. txFree' \in 0..TxPoolSize /\ TxConservation'
    <3>1. TxConservation
      BY DEF ResourceInv
    <3> QED
      BY <2>1, <3>1, CountFacts, PoolFacts DEF TxConservation, Held
  <2>3. pc' \in Phases /\ PhaseInv' /\ RxConservation'
    BY <1>12 DEF SentDone, UnsentDone, ResourceInv, Phases, RxConservation, PhaseInv,
         InCallback, Held
  <2>4. TypeOK'
    <3>1. /\ TypeOK /\ current' \in Requests \cup {None} /\ txFree' \in 0..TxPoolSize
          /\ pc' \in Phases
      BY <2>1, <2>2, <2>3 DEF ResourceInv
    <3> QED
      BY <1>12, <3>1 DEF SentDone, UnsentDone, TypeOK, componentVars, driverVars, rxVars,
         historyVars
  <2> QED
    BY <2>2, <2>3, <2>4 DEF ResourceInv
<1>13. CASE Release
  <2>1. /\ pkt # None /\ pkt' = None /\ rxFree' = rxFree + 1
        /\ UNCHANGED <<rxQueue, wifiHeld, rxLeaked>>
    BY <1>13 DEF Release, FreePacket, ResourceInv, PhaseInv
  <2>2. rxFree' \in 0..RxPoolSize /\ RxConservation'
    <3>1. RxConservation
      BY DEF ResourceInv
    <3> QED
      BY <2>1, <3>1, CountFacts, PoolFacts DEF RxConservation, Held
  <2> QED
    BY <1>13, <2>2 DEF Release, ResourceInv, TypeOK, Phases, TxConservation,
         PhaseInv, InCallback, Held
<1>14. CASE TxSend \/ TxError
  <2>1. /\ Head(txQueue) \in Requests /\ Tail(txQueue) \in Seq(Requests)
        /\ Len(Tail(txQueue)) = Len(txQueue) - 1
        /\ current = None /\ Head(txQueue) # None
    BY <1>14, HeadTailProperties, RequestAssumption
       DEF TxSend, TxError, ResourceInv, TypeOK, PhaseInv
  <2>2. TxConservation'
    <3>1. txQueue' = Tail(txQueue) /\ current' = Head(txQueue) /\ UNCHANGED <<txFree, txLeaked>>
      BY <1>14 DEF TxSend, TxError
    <3>2. TxConservation
      BY DEF ResourceInv
    <3> QED
      BY <2>1, <3>1, <3>2, CountFacts DEF TxConservation, Held
  <2> QED
    BY <1>14, <2>1, <2>2 DEF TxSend, TxError, ResourceInv, TypeOK, Phases,
         RxConservation, PhaseInv, InCallback, Held, Outcomes, Statuses
<1>15. ASSUME NEW src \in AnyAddress, OnDataReceived(src) PROVE ResourceInv'
  <2>1. Received(src) \in Packets /\ Received(src) # None
    BY PacketFacts
  <2>2. rxFree' \in 0..RxPoolSize /\ wifiHeld' \in Packets \cup {None} /\ RxConservation'
    <3>1. /\ wifiHeld = None /\ UNCHANGED <<rxQueue, pkt, rxLeaked>>
          /\ \/ rxFree > 0 /\ rxFree' = rxFree - 1 /\ wifiHeld' = Received(src)
             \/ UNCHANGED <<rxFree, wifiHeld>>
      BY <1>15 DEF OnDataReceived, CanAllocate
    <3>2. RxConservation /\ rxFree \in 0..RxPoolSize
      BY DEF ResourceInv, TypeOK
    <3>3. CASE rxFree > 0 /\ rxFree' = rxFree - 1 /\ wifiHeld' = Received(src)
      <4>1. Held(wifiHeld) = 0 /\ Held(wifiHeld') = 1 /\ Held(pkt') = Held(pkt)
        BY <2>1, <3>1, <3>3 DEF Held
      <4>2. RxConservation'
        BY <3>1, <3>2, <3>3, <4>1, CountFacts DEF RxConservation
      <4>3. rxFree' \in 0..RxPoolSize
        BY <3>2, <3>3, PoolFacts
      <4> QED
        BY <2>1, <3>3, <4>2, <4>3
    <3>4. CASE UNCHANGED <<rxFree, wifiHeld>>
      BY <3>1, <3>2, <3>4 DEF RxConservation, Held
    <3> QED
      BY <3>1, <3>3, <3>4
  <2>3. frames' \in 0..MaxFrames
    BY <1>15, PoolFacts DEF OnDataReceived, ResourceInv, TypeOK
  <2> QED
    BY <1>15, <2>2, <2>3 DEF OnDataReceived, ResourceInv, TypeOK, TxConservation,
         PhaseInv, InCallback, Held
<1>16. ASSUME NEW status \in Statuses, OnSendReport(status) PROVE ResourceInv'
  <2>1. /\ espFlight \in Requests
        /\ Sent(espFlight, status) \in Packets /\ Sent(espFlight, status) # None
    BY <1>16, PacketFacts DEF OnSendReport, ResourceInv, TypeOK
  <2>2. verdict' \in [Requests -> Verdicts]
    BY <1>16, <2>1 DEF OnSendReport, ResourceInv, TypeOK, Verdicts
  <2>3. rxFree' \in 0..RxPoolSize /\ wifiHeld' \in Packets \cup {None} /\ RxConservation'
    <3>1. /\ wifiHeld = None /\ UNCHANGED <<rxQueue, pkt, rxLeaked>>
          /\ \/ rxFree > 0 /\ rxFree' = rxFree - 1 /\ wifiHeld' = Sent(espFlight, status)
             \/ UNCHANGED <<rxFree, wifiHeld>>
      BY <1>16 DEF OnSendReport, CanAllocate
    <3>2. RxConservation /\ rxFree \in 0..RxPoolSize
      BY DEF ResourceInv, TypeOK
    <3>3. CASE rxFree > 0 /\ rxFree' = rxFree - 1 /\ wifiHeld' = Sent(espFlight, status)
      <4>1. Held(wifiHeld) = 0 /\ Held(wifiHeld') = 1 /\ Held(pkt') = Held(pkt)
        BY <2>1, <3>1, <3>3 DEF Held
      <4>2. RxConservation'
        BY <3>1, <3>2, <3>3, <4>1, CountFacts DEF RxConservation
      <4>3. rxFree' \in 0..RxPoolSize
        BY <3>2, <3>3, PoolFacts
      <4> QED
        BY <2>1, <3>3, <4>2, <4>3
    <3>4. CASE UNCHANGED <<rxFree, wifiHeld>>
      BY <3>1, <3>2, <3>4 DEF RxConservation, Held
    <3> QED
      BY <3>1, <3>3, <3>4
  <2> QED
    BY <1>16, <2>2, <2>3 DEF OnSendReport, ResourceInv, TypeOK, TxConservation,
         PhaseInv, InCallback, Held
<1>17. CASE WifiPush
  <2>1. /\ wifiHeld \in Packets /\ wifiHeld # None /\ wifiHeld' = None
        /\ UNCHANGED <<rxFree, pkt>>
        /\ \/ rxQueue' = Append(rxQueue, wifiHeld) /\ UNCHANGED <<rxLeaked, verdict>>
           \/ /\ rxQueue' = rxQueue /\ rxLeaked' = rxLeaked + 1
              /\ verdict' = IF wifiHeld.type = "SENT"
                            THEN [verdict EXCEPT ![wifiHeld.req] = "lost"] ELSE verdict
    BY <1>17 DEF WifiPush, ResourceInv, TypeOK
  <2>2. /\ Append(rxQueue, wifiHeld) \in Seq(Packets) /\ rxQueue \in Seq(Packets)
        /\ Len(Append(rxQueue, wifiHeld)) = Len(rxQueue) + 1
    BY <2>1, AppendProperties DEF ResourceInv, TypeOK
  <2>3. /\ rxQueue' \in Seq(Packets) /\ rxLeaked' \in Nat
        /\ Len(rxQueue') + rxLeaked' = Len(rxQueue) + rxLeaked + 1
    <3>1. CASE rxQueue' = Append(rxQueue, wifiHeld) /\ rxLeaked' = rxLeaked
      BY <2>2, <3>1, CountFacts
    <3>2. CASE rxQueue' = rxQueue /\ rxLeaked' = rxLeaked + 1
      BY <2>2, <3>2, CountFacts
    <3> QED
      BY <2>1, <3>1, <3>2
  <2>4. RxConservation'
    <3>1. RxConservation /\ Len(rxQueue') \in Nat
      BY <2>3 DEF ResourceInv
    <3>2. Held(wifiHeld) = 1 /\ Held(wifiHeld') = 0 /\ Held(pkt') = Held(pkt)
      BY <2>1 DEF Held
    <3>3. rxFree' + 0 + Len(rxQueue') + Held(pkt') + rxLeaked' = RxPoolSize
      <4>1. /\ rxFree \in Nat /\ Len(rxQueue) \in Nat /\ rxLeaked \in Nat
            /\ Held(pkt) \in Nat
        BY CountFacts
      <4>2. rxFree + 1 + Len(rxQueue) + Held(pkt) + rxLeaked = RxPoolSize
        BY <3>1, <3>2 DEF RxConservation
      <4>3. /\ rxLeaked' \in Nat /\ Len(rxQueue') \in Nat
            /\ Len(rxQueue') + rxLeaked' = Len(rxQueue) + rxLeaked + 1
        BY <2>3, <3>1
      <4>4. rxFree' = rxFree /\ Held(pkt') = Held(pkt)
        BY <2>1, <3>2
      <4> QED
        BY <4>1, <4>2, <4>3, <4>4
    <3> QED
      BY <3>2, <3>3 DEF RxConservation
  <2>5. verdict' \in [Requests -> Verdicts]
    BY <2>1 DEF ResourceInv, TypeOK, Verdicts
  <2>6. TypeOK'
    BY <1>17, <2>3, <2>5 DEF WifiPush, ResourceInv, TypeOK
  <2>7. TxConservation' /\ PhaseInv'
    BY <1>17 DEF WifiPush, ResourceInv, TxConservation, PhaseInv, InCallback, Held
  <2> QED
    BY <2>4, <2>6, <2>7 DEF ResourceInv
<1>18. CASE UNCHANGED vars
  <2>1. RxConservation' /\ TxConservation' /\ PhaseInv'
    BY <1>18, CountsKept DEF vars
  <2>2. TypeOK'
    BY <1>18 DEF vars, ResourceInv, TypeOK
  <2> QED
    BY <2>1, <2>2 DEF ResourceInv
<1> QED
  BY <1>1, <1>2, <1>3, <1>4, <1>5, <1>6, <1>7, <1>8, <1>9, <1>10, <1>11, <1>12,
     <1>13, <1>14, <1>15, <1>16, <1>17, <1>18
     DEF Next, UserStep, LoopStep, WifiStep, SendReport, Statuses

\* What makes the types and the packet counts inductive: where the main thread is.
LEMMA Resources == Spec => []ResourceInv
<1> QED
  BY ResourceInit, ResourceStep, PTL DEF Spec

\* Every variable keeps its type, for any number of requests, packets, frames.
THEOREM Types == Spec => []TypeOK
<1> QED
  BY Resources, PTL DEF ResourceInv

\* No receive packet is released twice, and none leaks but into a full queue.
THEOREM RxConserved == Spec => []RxConservation
<1> QED
  BY Resources, PTL DEF ResourceInv

\* No send packet is released twice, and none leaks but into a full queue.
THEOREM TxConserved == Spec => []TxConservation
<1> QED
  BY Resources, PTL DEF ResourceInv

\* A push that finds a full queue loses its packet, and shrinks the pool towards what
\* the queue holds.
LEMMA LeakStep == ResourceInv /\ LeaksBounded /\ [Next]_vars => LeaksBounded'
<1> SUFFICES ASSUME ResourceInv, LeaksBounded, [Next]_vars PROVE LeaksBounded'
  OBVIOUS
<1> USE DEF componentVars, driverVars, rxVars, txVars, loopVars, historyVars
<1>1. ASSUME NEW r \in Requests, Send(r) PROVE LeaksBounded'
  <2>1. /\ rxLeaked' = rxLeaked
        /\ \/ txLeaked' = txLeaked
           \/ txFree > 0 /\ ~ (Len(txQueue) < TxQueueCap) /\ txLeaked' = txLeaked + 1
    BY <1>1 DEF Send, Accept, Refuse, CanAllocate
  <2>2. txFree > 0 /\ ~ (Len(txQueue) < TxQueueCap)
          => txLeaked + 1 <= Excess(TxPoolSize, TxQueueCap)
    BY CountFacts, PoolFacts DEF ResourceInv, TxConservation, Excess
  <2> QED
    BY <2>1, <2>2 DEF LeaksBounded
<1>2. CASE WifiPush
  <2>1. /\ txLeaked' = txLeaked
        /\ \/ rxLeaked' = rxLeaked
           \/ /\ wifiHeld # None /\ ~ (Len(rxQueue) < RxQueueCap)
              /\ rxLeaked' = rxLeaked + 1
    BY <1>2 DEF WifiPush
  <2>2. wifiHeld # None /\ ~ (Len(rxQueue) < RxQueueCap)
          => rxLeaked + 1 <= Excess(RxPoolSize, RxQueueCap)
    BY CountFacts, PoolFacts DEF ResourceInv, RxConservation, Excess, Held
  <2> QED
    BY <2>1, <2>2 DEF LeaksBounded
<1>3. ASSUME UNCHANGED <<rxLeaked, txLeaked>> PROVE LeaksBounded'
  BY <1>3 DEF LeaksBounded
<1>4. CASE \/ Enable \/ Disable \/ ApplyWifiChannel \/ WifiToggle
           \/ \E a \in AnyAddress : AddPeer(a) \/ DelPeer(a)
  BY <1>3, <1>4 DEF Enable, Enable_, Disable, ApplyWifiChannel, WifiToggle, AddPeer, DelPeer
<1>5. CASE LoopStep \/ UNCHANGED vars
  BY <1>3, <1>5 DEF LoopStep, Setup, Enable_, LoopBegin, PopReceived, UnknownDone,
     DeliverDone, PopSent, SentDone, Release, Drained, TxSend, TxError, UnsentDone, vars
<1>6. CASE SendReport \/ \E src \in AnyAddress : OnDataReceived(src)
  BY <1>3, <1>6 DEF SendReport, OnSendReport, OnDataReceived
<1> QED
  BY <1>1, <1>2, <1>4, <1>5, <1>6 DEF Next, UserStep, WifiStep

\* espnow_component.cpp:90: "the pool ensures we never exceed queue size".  Of each pool
\* no more packets are ever lost than it has beyond what its queue holds: none when
\* the queue holds them all, one in a ring with as many slots as the pool has packets.
THEOREM BoundedLeaks == Spec => []LeaksBounded
<1>1. Init => LeaksBounded
  BY PoolFacts DEF Init, LeaksBounded, Excess
<1> QED
  BY Resources, <1>1, LeakStep, PTL DEF Spec

-----------------------------------------------------------------------------
(* The current packet and its report.                                       *)

\* Before setup() nothing has been sent.
LEMMA SendInit == Init => SendInv
BY RequestAssumption
   DEF Init, SendInv, ReportsAreCurrent, CurrentAccounted, AcceptedRequests,
       AnswerInv, ReportPlaces, IsReport, InCallback, ToSet, IsInjective

\* A step that leaves the send side alone and neither enters nor leaves a
\* callback keeps its invariant.
LEMMA QuietStep ==
    ASSUME SendInv,
           UNCHANGED <<rxQueue, wifiHeld, espFlight, current, txQueue, outcome,
                       verdict>>,
           pc' = pc \/ {pc, pc'} \cap {"sent", "unsent", "aborted"} = {}
    PROVE  SendInv'
<1>1. (InCallback' <=> InCallback) /\ (pc' = "aborted" <=> pc = "aborted")
  BY DEF InCallback
<1>2. ReportPlaces' = ReportPlaces
  BY DEF ReportPlaces, IsReport
<1> QED
  BY <1>1, <1>2 DEF SendInv, ReportsAreCurrent, CurrentAccounted,
       AcceptedRequests, AnswerInv, IsReport, ToSet

\* Membership in ReportPlaces, spelled out.
LEMMA PlaceMeaning ==
    ASSUME NEW i
    PROVE  i \in ReportPlaces <=>
             \/ i \in DOMAIN rxQueue /\ IsReport(rxQueue[i])
             \/ i = Len(rxQueue) + 1 /\ IsReport(wifiHeld)
             \/ i = Len(rxQueue) + 2 /\ espFlight # None
BY DEF ReportPlaces

\* The same in the next state.
LEMMA PlaceMeaningNext ==
    ASSUME NEW i
    PROVE  i \in ReportPlaces' <=>
             \/ i \in DOMAIN rxQueue' /\ IsReport(rxQueue'[i])
             \/ i = Len(rxQueue') + 1 /\ IsReport(wifiHeld')
             \/ i = Len(rxQueue') + 2 /\ espFlight' # None
BY DEF ReportPlaces, IsReport

\* A pop moves every report one place forward.
LEMMA PopPlaces ==
    ASSUME ResourceInv, NEW type, Pop(type), UNCHANGED <<wifiHeld, espFlight>>
    PROVE  \A i \in Nat \ {0} :
             /\ i \in ReportPlaces' <=> i+1 \in ReportPlaces
             /\ i \in DOMAIN rxQueue' => rxQueue'[i] = rxQueue[i+1]
<1>1. /\ rxQueue \in Seq(Packets) /\ rxQueue # <<>> /\ rxQueue' = Tail(rxQueue)
      /\ DOMAIN rxQueue = 1..Len(rxQueue)
  BY DEF ResourceInv, TypeOK, Pop
<1>2. /\ Len(rxQueue) \in Nat /\ Len(rxQueue') = Len(rxQueue) - 1
      /\ DOMAIN rxQueue' = 1..Len(rxQueue)-1
      /\ \A i \in 1..Len(rxQueue)-1 : rxQueue'[i] = rxQueue[i+1]
  BY <1>1, HeadTailProperties
<1>3. ASSUME NEW i \in Nat \ {0}
      PROVE  i \in ReportPlaces' <=> i+1 \in ReportPlaces
  <2>1. i \in DOMAIN rxQueue' <=> i+1 \in DOMAIN rxQueue
    BY <1>1, <1>2
  <2>2. i \in DOMAIN rxQueue' => rxQueue'[i] = rxQueue[i+1]
    BY <1>2
  <2>3. /\ i = Len(rxQueue') + 1 <=> i+1 = Len(rxQueue) + 1
        /\ i = Len(rxQueue') + 2 <=> i+1 = Len(rxQueue) + 2
    BY <1>2
  <2> QED
    BY <2>1, <2>2, <2>3, PlaceMeaning, PlaceMeaningNext, Zenon
<1> QED
  BY <1>2, <1>3

\* As long as a report is on its way its request waits for it.
LEMMA AwaitedRequest ==
    ASSUME ResourceInv, SendInv, NEW i \in ReportPlaces
    PROVE  /\ current \in Requests /\ ~InCallback
           /\ outcome[current] = "pending" /\ current \notin ToSet(txQueue)
           /\ \A j \in ReportPlaces : j = i
BY DEF ResourceInv, TypeOK, SendInv, CurrentAccounted, AcceptedRequests

\* No report is on its way without a current packet, or in a callback.
LEMMA NoneAwaited ==
    ASSUME SendInv, current = None \/ InCallback
    PROVE  /\ ReportPlaces = {} /\ espFlight = None /\ ~IsReport(wifiHeld)
           /\ \A i \in DOMAIN rxQueue : ~IsReport(rxQueue[i])
<1>1. ReportPlaces = {}
  BY DEF SendInv, CurrentAccounted
<1> QED
  BY <1>1, PlaceMeaning

\* disable() loses at most the current request's own report.
LEMMA DisableSend == ResourceInv /\ SendInv /\ Disable => SendInv'
<1> SUFFICES ASSUME ResourceInv, SendInv, Disable PROVE SendInv'
  OBVIOUS
<1> USE DEF rxVars, txVars, loopVars
<1>1. CASE espFlight = None
  <2>1. verdict' = verdict
    BY <1>1, RequestAssumption DEF Disable, ResourceInv, TypeOK
  <2> QED
    BY <1>1, <2>1, QuietStep DEF Disable
<1>2. CASE espFlight # None
  <2>1. Len(rxQueue) + 2 \in ReportPlaces
    BY <1>2, PlaceMeaning
  <2>2. /\ espFlight = current /\ current \in Requests /\ ~InCallback
        /\ outcome[current] = "pending" /\ current \notin ToSet(txQueue)
    BY <1>2, <2>1, AwaitedRequest DEF SendInv, ReportsAreCurrent
  <2>3. ~IsReport(wifiHeld) /\ \A i \in DOMAIN rxQueue : ~IsReport(rxQueue[i])
    <3>1. Len(rxQueue) \in Nat /\ DOMAIN rxQueue = 1..Len(rxQueue)
      BY DEF ResourceInv, TypeOK
    <3>2. \A j \in ReportPlaces : j = Len(rxQueue) + 2
      BY <2>1, AwaitedRequest
    <3> QED
      BY <3>1, <3>2, PlaceMeaning
  <2>4. ReportPlaces' = {}
    BY <2>3, PlaceMeaningNext DEF Disable
  <2>5. verdict'[current] = "lost"
        /\ \A r \in Requests \ {current} : verdict'[r] = verdict[r]
    BY <2>2 DEF Disable
  <2>6. ReportsAreCurrent'
    BY <2>3 DEF Disable, ReportsAreCurrent, IsReport, ToSet
  <2>7. CurrentAccounted'
    BY <2>2, <2>4, <2>5 DEF Disable, CurrentAccounted, InCallback
  <2>8. AcceptedRequests' /\ AnswerInv'
    BY <2>2, <2>5 DEF Disable, SendInv, AcceptedRequests, AnswerInv, InCallback
  <2> QED
    BY <2>6, <2>7, <2>8 DEF SendInv
<1> QED
  BY <1>1, <1>2

\* A call of send() touches only its own request and the end of the queue.
LEMMA CallSend ==
    ASSUME ResourceInv, SendInv, NEW r \in Requests, Send(r)
    PROVE  SendInv'
<1> USE DEF rxVars, txVars, loopVars
<1>1. /\ UNCHANGED <<rxQueue, wifiHeld, espFlight, current, pc>>
      /\ outcome[r] = "new"
  BY DEF Send
<1>2. (ReportPlaces' = ReportPlaces) /\ (InCallback' <=> InCallback)
  BY <1>1 DEF ReportPlaces, IsReport, InCallback
<1>3. \/ /\ outcome' = [outcome EXCEPT ![r] = "pending"] /\ txQueue' = Append(txQueue, r)
         /\ verdict' = verdict
      \/ /\ outcome' = [outcome EXCEPT ![r] = "pending"] /\ txQueue' = txQueue
         /\ verdict' = [verdict EXCEPT ![r] = "unqueued"]
      \/ /\ outcome' = [outcome EXCEPT ![r] = "refused"] /\ txQueue' = txQueue
         /\ verdict' = verdict
  BY DEF Send, Accept, Refuse
<1>4. /\ r \notin ToSet(txQueue) /\ r # current /\ r \notin Forgotten
      /\ ~ (\E p \in {wifiHeld} \cup ToSet(rxQueue) : IsReport(p) /\ p.req = r)
      /\ espFlight # r
  <2>1. r # None
    BY RequestAssumption
  <2>2. r \notin ToSet(txQueue) /\ r \notin Forgotten
    BY <1>1 DEF SendInv, AcceptedRequests
  <2>3. r # current
    BY <1>1, <2>1 DEF SendInv, AcceptedRequests, AnswerInv
  <2>4. espFlight # r
    BY <2>1, <2>3 DEF SendInv, ReportsAreCurrent
  <2>5. ASSUME NEW p \in {wifiHeld} \cup ToSet(rxQueue), IsReport(p) PROVE p.req # r
    BY <2>3, <2>5 DEF SendInv, ReportsAreCurrent
  <2> QED
    BY <2>2, <2>3, <2>4, <2>5
<1>5. outcome \in [Requests -> Outcomes] /\ verdict \in [Requests -> Verdicts]
      /\ txQueue \in Seq(Requests)
  BY DEF ResourceInv, TypeOK
<1>6. \A q \in Requests : q # r => verdict'[q] = verdict[q]
  BY <1>3, <1>5
<1>7. ReportsAreCurrent' /\ CurrentAccounted'
  <2>1. ReportsAreCurrent'
    <3>1. /\ espFlight \in Requests \cup {None}
          /\ \A p \in {wifiHeld} \cup ToSet(rxQueue) : IsReport(p) => p.req \in Requests
      BY PacketFacts DEF ResourceInv, TypeOK, IsReport, ToSet
    <3> QED
      BY <1>1, <1>4, <1>6, <3>1 DEF SendInv, ReportsAreCurrent, IsReport, ToSet
  <2>2. CurrentAccounted'
    <3>1. current \in Requests \cup {None}
      BY DEF ResourceInv, TypeOK
    <3> QED
      BY <1>1, <1>2, <1>4, <1>6, <3>1 DEF SendInv, CurrentAccounted
  <2> QED
    BY <2>1, <2>2
<1>8. CASE /\ outcome' = [outcome EXCEPT ![r] = "pending"] /\ txQueue' = Append(txQueue, r)
           /\ verdict' = verdict
  <2>1. ToSet(txQueue') = ToSet(txQueue) \cup {r} /\ IsInjective(txQueue')
    BY <1>4, <1>5, <1>8, AppendElements DEF SendInv, AcceptedRequests
  <2>2. AcceptedRequests'
    BY <1>1, <1>2, <1>4, <1>5, <1>8, <2>1 DEF SendInv, AcceptedRequests
  <2>3. AnswerInv'
    BY <1>1, <1>2, <1>4, <1>5, <1>8, <2>1 DEF SendInv, AnswerInv
  <2> QED
    BY <1>7, <2>2, <2>3 DEF SendInv
<1>9. CASE /\ outcome' = [outcome EXCEPT ![r] = "pending"] /\ txQueue' = txQueue
           /\ verdict' = [verdict EXCEPT ![r] = "unqueued"]
  <2>1. /\ ToSet(txQueue') = ToSet(txQueue) /\ (IsInjective(txQueue') <=> IsInjective(txQueue))
        /\ Forgotten' = Forgotten \cup {r}
    BY <1>5, <1>9 DEF ToSet, IsInjective
  <2> HIDE DEF Forgotten
  <2>2. AcceptedRequests'
    BY <1>1, <1>2, <1>4, <1>5, <1>9, <2>1 DEF SendInv, AcceptedRequests
  <2>3. AnswerInv'
    BY <1>1, <1>2, <1>4, <1>5, <1>9, <2>1 DEF SendInv, AnswerInv
  <2> QED
    BY <1>7, <2>2, <2>3 DEF SendInv
<1>10. CASE /\ outcome' = [outcome EXCEPT ![r] = "refused"] /\ txQueue' = txQueue
            /\ verdict' = verdict
  <2>1. AcceptedRequests' /\ AnswerInv'
    BY <1>1, <1>2, <1>4, <1>5, <1>10
       DEF SendInv, AcceptedRequests, AnswerInv, ToSet, IsInjective
  <2> QED
    BY <1>7, <2>1 DEF SendInv
<1> QED
  BY <1>3, <1>8, <1>9, <1>10

\* What a pop leaves in the queue was there before; places are positions.
LEMMA PopQueue ==
    ASSUME ResourceInv, NEW type, Pop(type), UNCHANGED <<wifiHeld, espFlight>>
    PROVE  /\ ToSet(rxQueue') \subseteq ToSet(rxQueue)
           /\ Head(rxQueue) \in ToSet(rxQueue)
           /\ 1 \in ReportPlaces <=> type = "SENT"
           /\ ReportPlaces \subseteq Nat \ {0} /\ ReportPlaces' \subseteq Nat \ {0}
           /\ \A i \in Nat \ {0} : i \in ReportPlaces' <=> i+1 \in ReportPlaces
<1>1. /\ rxQueue \in Seq(Packets) /\ rxQueue # <<>> /\ rxQueue' = Tail(rxQueue)
      /\ Head(rxQueue).type = type
  BY DEF ResourceInv, TypeOK, Pop
<1>2. /\ Head(rxQueue) \in ToSet(rxQueue) /\ ToSet(rxQueue') \subseteq ToSet(rxQueue)
      /\ rxQueue' \in Seq(Packets) /\ Head(rxQueue) \in Packets
  BY <1>1, TailElements, HeadTailProperties
<1>3. /\ Len(rxQueue) \in Nat /\ DOMAIN rxQueue = 1..Len(rxQueue)
      /\ Len(rxQueue') \in Nat /\ DOMAIN rxQueue' = 1..Len(rxQueue')
      /\ Len(rxQueue) >= 1 /\ rxQueue[1] = Head(rxQueue)
  BY <1>1, <1>2
<1>4. ReportPlaces \subseteq Nat \ {0} /\ ReportPlaces' \subseteq Nat \ {0}
  BY <1>3, PlaceMeaning, PlaceMeaningNext
<1>5. 1 \in ReportPlaces <=> type = "SENT"
  <2>1. 1 \in ReportPlaces <=> IsReport(rxQueue[1])
    BY <1>3, PlaceMeaning
  <2> QED
    BY <1>1, <1>2, <1>3, <2>1, PacketFacts DEF IsReport
<1> QED
  BY <1>2, <1>4, <1>5, PopPlaces

\* Taking a received packet moves the reports behind it one place forward.
LEMMA PopReceivedSend == ResourceInv /\ SendInv /\ PopReceived => SendInv'
<1> SUFFICES ASSUME ResourceInv, SendInv, PopReceived PROVE SendInv'
  OBVIOUS
<1>1. /\ Pop("RECEIVED") /\ ~InCallback /\ ~InCallback' /\ pc # "aborted"
      /\ pc' # "aborted"
      /\ UNCHANGED <<wifiHeld, espFlight, txQueue, current, outcome, verdict>>
  BY DEF PopReceived, Pop, InCallback, driverVars, txVars, historyVars
<1>2. /\ ToSet(rxQueue') \subseteq ToSet(rxQueue)
      /\ 1 \notin ReportPlaces
      /\ ReportPlaces \subseteq Nat \ {0} /\ ReportPlaces' \subseteq Nat \ {0}
      /\ \A i \in Nat \ {0} : i \in ReportPlaces' <=> i+1 \in ReportPlaces
  BY <1>1, PopQueue
<1>3. ReportsAreCurrent'
  BY <1>1, <1>2 DEF SendInv, ReportsAreCurrent, IsReport
<1>4. /\ \A i, j \in ReportPlaces' : i = j
      /\ ReportPlaces' = {} <=> ReportPlaces = {}
  <2>1. \A i \in ReportPlaces' : i \in Nat /\ i+1 \in ReportPlaces
    BY <1>2
  <2>2. \A i \in ReportPlaces : i-1 \in ReportPlaces'
    BY <1>2
  <2>3. \A i, j \in ReportPlaces : i = j
    BY DEF SendInv, CurrentAccounted
  <2> QED
    BY <2>1, <2>2, <2>3
<1>5. CurrentAccounted'
  BY <1>1, <1>4 DEF SendInv, CurrentAccounted
<1>6. AcceptedRequests' /\ AnswerInv'
  BY <1>1 DEF SendInv, AcceptedRequests, AnswerInv, ToSet, IsInjective
<1> QED
  BY <1>3, <1>5, <1>6 DEF SendInv

\* The report at the head of the queue is the one the current packet waits for.
LEMMA PoppedReport ==
    ASSUME ResourceInv, SendInv, PopSent
    PROVE  /\ current \in Requests /\ ~InCallback
           /\ outcome[current] = "pending" /\ current \notin ToSet(txQueue)
           /\ ReportPlaces' = {}
           /\ Head(rxQueue).status = verdict[current]
           /\ verdict[current] \in Statuses
<1>1. Pop("SENT") /\ UNCHANGED <<wifiHeld, espFlight>>
  BY DEF PopSent, driverVars
<1>2. /\ Head(rxQueue) \in ToSet(rxQueue) /\ 1 \in ReportPlaces
      /\ ReportPlaces' \subseteq Nat \ {0}
      /\ \A i \in Nat \ {0} : i \in ReportPlaces' <=> i+1 \in ReportPlaces
  BY <1>1, PopQueue
<1>3. /\ current \in Requests /\ ~InCallback
      /\ outcome[current] = "pending" /\ current \notin ToSet(txQueue)
      /\ \A j \in ReportPlaces : j = 1
  BY <1>2, AwaitedRequest
<1>4. ReportPlaces' = {}
  <2>1. ASSUME NEW i \in ReportPlaces' PROVE FALSE
    <3>1. i \in Nat /\ i # 0 /\ i+1 \in ReportPlaces
      BY <1>2
    <3> QED
      BY <1>3, <3>1
  <2> QED
    BY <2>1
<1>5. Head(rxQueue) \in Packets /\ Head(rxQueue).type = "SENT"
  BY <1>1, PopResources DEF Pop
<1>6. Head(rxQueue).status = verdict[current]
  BY <1>2, <1>5, PacketFacts DEF SendInv, ReportsAreCurrent, IsReport
<1> QED
  BY <1>3, <1>4, <1>5, <1>6, PacketFacts

\* Applying a report answers the current request, with its own status.
LEMMA PopSentSend == ResourceInv /\ SendInv /\ PopSent => SendInv'
<1> SUFFICES ASSUME ResourceInv, SendInv, PopSent PROVE SendInv'
  OBVIOUS
<1>1. /\ Pop("SENT")
      /\ UNCHANGED <<wifiHeld, espFlight, txQueue, current, verdict>>
      /\ current # None
      /\ \/ pc' = "aborted" /\ outcome' = outcome
         \/ pc' = "sent" /\ outcome' = [outcome EXCEPT ![current] = verdict[current]]
  BY PoppedReport, RequestAssumption DEF PopSent, driverVars, txVars
<1>2. ToSet(rxQueue') \subseteq ToSet(rxQueue)
  BY <1>1, PopQueue
<1>3. ReportsAreCurrent'
  BY <1>1, <1>2 DEF SendInv, ReportsAreCurrent, IsReport
<1>4. CurrentAccounted'
  BY <1>1, PoppedReport DEF CurrentAccounted, InCallback
<1>5. outcome \in [Requests -> Outcomes]
  BY DEF ResourceInv, TypeOK
<1>6. AcceptedRequests' /\ AnswerInv'
  BY <1>1, <1>5, PoppedReport
     DEF SendInv, AcceptedRequests, AnswerInv, InCallback, Statuses, ToSet, IsInjective
<1> QED
  BY <1>3, <1>4, <1>6 DEF SendInv

\* Once the callback has returned the sender is free and awaits no report.
LEMMA CallbackSend ==
    ResourceInv /\ SendInv /\ (SentDone \/ UnsentDone) => SendInv'
<1> SUFFICES ASSUME ResourceInv, SendInv, SentDone \/ UnsentDone PROVE SendInv'
  OBVIOUS
<1>1. /\ UNCHANGED <<rxQueue, wifiHeld, espFlight, txQueue, outcome, verdict>>
      /\ InCallback /\ ~InCallback' /\ current' = None /\ current # None
  BY DEF SentDone, UnsentDone, InCallback, driverVars, rxVars, historyVars,
     ResourceInv, PhaseInv
<1>2. /\ ReportPlaces' = {} /\ espFlight = None /\ ~IsReport(wifiHeld)
      /\ \A i \in DOMAIN rxQueue : ~IsReport(rxQueue[i])
  BY <1>1, NoneAwaited, PlaceMeaningNext
<1>3. ReportsAreCurrent' /\ CurrentAccounted'
  BY <1>1, <1>2 DEF ReportsAreCurrent, CurrentAccounted, IsReport, ToSet
<1>4. AcceptedRequests' /\ AnswerInv'
  <2>1. None \notin ToSet(txQueue) /\ None \notin Requests
    BY RequestAssumption DEF ResourceInv, TypeOK, ToSet
  <2> QED
    BY <1>1, <2>1 DEF SendInv, AcceptedRequests, AnswerInv, ToSet, IsInjective
<1> QED
  BY <1>3, <1>4 DEF SendInv

\* The request send_() takes from its queue, when the sender is free.
LEMMA TxHead ==
    ASSUME ResourceInv, SendInv, TxSend \/ TxError
    PROVE  /\ txQueue # <<>> /\ Head(txQueue) \in Requests /\ Head(txQueue) # None
           /\ current = None /\ ~InCallback
           /\ outcome[Head(txQueue)] = "pending" /\ verdict[Head(txQueue)] = "none"
           /\ IsInjective(Tail(txQueue)) /\ Head(txQueue) \notin ToSet(Tail(txQueue))
           /\ ToSet(txQueue) = ToSet(Tail(txQueue)) \cup {Head(txQueue)}
<1>1. txQueue \in Seq(Requests) /\ txQueue # <<>> /\ current = None /\ ~InCallback
  BY DEF TxSend, TxError, ResourceInv, TypeOK, PhaseInv, InCallback
<1>2. /\ Head(txQueue) \in Requests /\ Head(txQueue) \in ToSet(txQueue)
      /\ Head(txQueue) # None
  BY <1>1, TailElements, HeadTailProperties, RequestAssumption
<1>3. /\ IsInjective(Tail(txQueue)) /\ Head(txQueue) \notin ToSet(Tail(txQueue))
      /\ ToSet(txQueue) = ToSet(Tail(txQueue)) \cup {Head(txQueue)}
  BY <1>1, TailElements DEF SendInv, AcceptedRequests
<1> QED
  BY <1>1, <1>2, <1>3 DEF SendInv, AcceptedRequests, AnswerInv

\* Handing a frame to the driver makes its report the only one awaited.
LEMMA TxSendSend == ResourceInv /\ SendInv /\ TxSend => SendInv'
<1> SUFFICES ASSUME ResourceInv, SendInv, TxSend PROVE SendInv'
  OBVIOUS
<1>1. /\ UNCHANGED <<rxQueue, wifiHeld, outcome, verdict>>
      /\ current' = Head(txQueue) /\ espFlight' = Head(txQueue)
      /\ txQueue' = Tail(txQueue) /\ ~InCallback' /\ pc' # "aborted"
  BY DEF TxSend, rxVars, historyVars, InCallback
<1>2. /\ ~IsReport(wifiHeld) /\ \A i \in DOMAIN rxQueue : ~IsReport(rxQueue[i])
  BY TxHead, NoneAwaited
<1>3. ReportPlaces' = {Len(rxQueue) + 2}
  BY <1>1, <1>2, TxHead, PlaceMeaningNext DEF IsReport
<1>4. ReportsAreCurrent'
  BY <1>1, <1>2, TxHead DEF ReportsAreCurrent, IsReport, ToSet
<1>5. CurrentAccounted'
  BY <1>1, <1>3, TxHead DEF CurrentAccounted
<1>6. AcceptedRequests' /\ AnswerInv'
  <2>1. /\ IsInjective(txQueue') /\ current' \notin ToSet(txQueue')
        /\ ToSet(txQueue) = ToSet(txQueue') \cup {current'}
    BY <1>1, TxHead
  <2>2. AcceptedRequests'
    BY <1>1, <2>1, TxHead, RequestAssumption DEF SendInv, AcceptedRequests
  <2>3. AnswerInv'
    BY <1>1, <2>1, TxHead DEF SendInv, AnswerInv
  <2> QED
    BY <2>2, <2>3
<1> QED
  BY <1>4, <1>5, <1>6 DEF SendInv

\* A frame the driver refuses is answered in its callback, with no report.
LEMMA TxErrorSend == ResourceInv /\ SendInv /\ TxError => SendInv'
<1> SUFFICES ASSUME ResourceInv, SendInv, TxError PROVE SendInv'
  OBVIOUS
<1>1. /\ UNCHANGED <<rxQueue, wifiHeld, espFlight, verdict>>
      /\ current' = Head(txQueue) /\ txQueue' = Tail(txQueue) /\ InCallback'
      /\ outcome' = [outcome EXCEPT ![Head(txQueue)] = "error"]
  BY DEF TxError, driverVars, rxVars, InCallback
<1>2. /\ espFlight = None /\ ~IsReport(wifiHeld)
      /\ \A i \in DOMAIN rxQueue : ~IsReport(rxQueue[i])
  BY TxHead, NoneAwaited
<1>3. ReportPlaces' = {}
  BY <1>1, <1>2, PlaceMeaningNext DEF IsReport
<1>4. ReportsAreCurrent'
  BY <1>1, <1>2 DEF ReportsAreCurrent, IsReport, ToSet
<1>5. CurrentAccounted'
  BY <1>1, <1>3 DEF CurrentAccounted
<1>6. outcome \in [Requests -> Outcomes]
  BY DEF ResourceInv, TypeOK
<1>7. AcceptedRequests' /\ AnswerInv'
  <2>1. /\ IsInjective(txQueue') /\ current' \notin ToSet(txQueue')
        /\ ToSet(txQueue) = ToSet(txQueue') \cup {current'}
    BY <1>1, TxHead
  <2>2. AcceptedRequests'
    BY <1>1, <1>6, <2>1, TxHead, RequestAssumption DEF SendInv, AcceptedRequests
  <2>3. AnswerInv'
    BY <1>1, <1>6, <2>1, TxHead DEF SendInv, AnswerInv
  <2> QED
    BY <2>2, <2>3
<1> QED
  BY <1>4, <1>5, <1>7 DEF SendInv

\* A received frame brings no report.
LEMMA DataReceivedSend ==
    ASSUME ResourceInv, SendInv, NEW src \in AnyAddress, OnDataReceived(src)
    PROVE  SendInv'
<1>1. /\ UNCHANGED <<rxQueue, espFlight, txQueue, current, pc, outcome, verdict>>
      /\ ~IsReport(wifiHeld) /\ ~IsReport(wifiHeld')
  BY PacketFacts DEF OnDataReceived, driverVars, txVars, loopVars, historyVars, IsReport
<1>2. (ReportPlaces' = ReportPlaces) /\ (InCallback' <=> InCallback)
  <2>1. ASSUME NEW i PROVE i \in ReportPlaces' <=> i \in ReportPlaces
    BY <1>1, PlaceMeaning, PlaceMeaningNext
  <2> QED
    BY <1>1, <2>1 DEF InCallback
<1>3. ReportsAreCurrent' /\ CurrentAccounted'
  BY <1>1, <1>2 DEF SendInv, ReportsAreCurrent, CurrentAccounted, IsReport, ToSet
<1>4. AcceptedRequests' /\ AnswerInv'
  BY <1>1, <1>2 DEF SendInv, AcceptedRequests, AnswerInv, ToSet, IsInjective
<1> QED
  BY <1>3, <1>4 DEF SendInv

\* The driver's report moves from the driver into the Wi-Fi task's hands.
LEMMA SendReportSend ==
    ASSUME ResourceInv, SendInv, NEW status \in Statuses, OnSendReport(status)
    PROVE  SendInv'
<1>1. /\ UNCHANGED <<rxQueue, txQueue, current, pc, outcome>>
      /\ espFlight # None /\ espFlight' = None
      /\ \/ /\ wifiHeld' = Sent(espFlight, status)
            /\ verdict' = [verdict EXCEPT ![espFlight] = status]
         \/ /\ wifiHeld' = None
            /\ verdict' = [verdict EXCEPT ![espFlight] = "lost"]
  BY DEF OnSendReport, txVars, loopVars
<1>2. Len(rxQueue) + 2 \in ReportPlaces
  BY <1>1, PlaceMeaning
<1>3. /\ espFlight = current /\ current \in Requests /\ ~InCallback
      /\ outcome[current] = "pending" /\ current \notin ToSet(txQueue)
      /\ \A j \in ReportPlaces : j = Len(rxQueue) + 2
  BY <1>1, <1>2, AwaitedRequest DEF SendInv, ReportsAreCurrent
<1>4. \A i \in DOMAIN rxQueue : ~IsReport(rxQueue[i])
  <2>1. Len(rxQueue) \in Nat /\ DOMAIN rxQueue = 1..Len(rxQueue)
    BY DEF ResourceInv, TypeOK
  <2> QED
    BY <1>3, <2>1, PlaceMeaning
<1>5. verdict \in [Requests -> Verdicts]
  BY DEF ResourceInv, TypeOK
<1>6. /\ \A r \in Requests \ {current} : verdict'[r] = verdict[r]
      /\ \/ /\ wifiHeld' = Sent(current, status) /\ verdict'[current] = status
            /\ ReportPlaces' = {Len(rxQueue) + 1}
         \/ /\ wifiHeld' = None /\ verdict'[current] = "lost"
            /\ ReportPlaces' = {}
  <2>1. CASE wifiHeld' = Sent(espFlight, status)
             /\ verdict' = [verdict EXCEPT ![espFlight] = status]
    <3>1. IsReport(wifiHeld')
      BY <1>3, <2>1, PacketFacts DEF IsReport
    <3>2. ReportPlaces' = {Len(rxQueue) + 1}
      BY <1>1, <1>4, <3>1, PlaceMeaningNext
    <3> QED
      BY <1>3, <1>5, <2>1, <3>2
  <2>2. CASE wifiHeld' = None
             /\ verdict' = [verdict EXCEPT ![espFlight] = "lost"]
    <3>1. ReportPlaces' = {}
      BY <1>1, <1>4, <2>2, PlaceMeaningNext DEF IsReport
    <3> QED
      BY <1>3, <1>5, <2>2, <3>1
  <2> QED
    BY <1>1, <2>1, <2>2
<1>7. ReportsAreCurrent'
  BY <1>1, <1>3, <1>4, <1>6, PacketFacts DEF ReportsAreCurrent, IsReport, ToSet
<1>8. CurrentAccounted'
  BY <1>1, <1>3, <1>6, RequestAssumption
     DEF CurrentAccounted, InCallback, Statuses
<1>9. AcceptedRequests' /\ AnswerInv'
  <2>1. verdict'[current] # "unqueued" /\ current \notin Forgotten
    BY <1>6 DEF SendInv, AcceptedRequests, Statuses
  <2>2. Forgotten' = Forgotten
    BY <1>3, <1>6, <2>1
  <2>3. AcceptedRequests'
    BY <1>1, <2>2 DEF SendInv, AcceptedRequests, InCallback
  <2>4. AnswerInv'
    BY <1>1, <1>3, <1>6 DEF SendInv, AnswerInv, InCallback
  <2> QED
    BY <2>3, <2>4
<1> QED
  BY <1>7, <1>8, <1>9 DEF SendInv

\* A report that a full queue does not take is lost: its request waits for ever.
LEMMA WifiPushLeak ==
    ASSUME ResourceInv, SendInv, WifiPush, ~HasRoom(rxQueue, RxQueueCap)
    PROVE  SendInv'
<1>1. /\ UNCHANGED <<rxQueue, espFlight, txQueue, current, pc, outcome>>
      /\ wifiHeld \in Packets /\ wifiHeld # None /\ wifiHeld' = None
      /\ verdict' = IF wifiHeld.type = "SENT"
                    THEN [verdict EXCEPT ![wifiHeld.req] = "lost"] ELSE verdict
      /\ Len(rxQueue) \in Nat /\ DOMAIN rxQueue = 1..Len(rxQueue)
  BY DEF WifiPush, driverVars, txVars, loopVars, ResourceInv, TypeOK
<1>2. ~IsReport(wifiHeld') /\ (InCallback' <=> InCallback)
  BY <1>1 DEF IsReport, InCallback
<1>3. CASE ~IsReport(wifiHeld)
  <2>1. verdict' = verdict
    BY <1>1, <1>3 DEF IsReport
  <2>2. ReportPlaces' = ReportPlaces
    <3>1. ASSUME NEW i PROVE i \in ReportPlaces' <=> i \in ReportPlaces
      BY <1>1, <1>2, <1>3, PlaceMeaning, PlaceMeaningNext
    <3> QED
      BY <3>1
  <2>3. ReportsAreCurrent' /\ CurrentAccounted'
    BY <1>1, <1>2, <2>1, <2>2
       DEF SendInv, ReportsAreCurrent, CurrentAccounted, IsReport, ToSet
  <2>4. AcceptedRequests' /\ AnswerInv'
    BY <1>1, <1>2, <2>1 DEF SendInv, AcceptedRequests, AnswerInv, ToSet, IsInjective
  <2> QED
    BY <2>3, <2>4 DEF SendInv
<1>4. CASE IsReport(wifiHeld)
  <2>1. Len(rxQueue) + 1 \in ReportPlaces
    BY <1>4, PlaceMeaning
  <2>2. /\ current \in Requests /\ ~InCallback /\ outcome[current] = "pending"
        /\ current \notin ToSet(txQueue)
        /\ \A j \in ReportPlaces : j = Len(rxQueue) + 1
    BY <2>1, AwaitedRequest
  <2>3. wifiHeld.req = current /\ wifiHeld.type = "SENT"
    BY <1>4 DEF SendInv, ReportsAreCurrent, IsReport
  <2>4. /\ verdict'[current] = "lost"
        /\ \A q \in Requests \ {current} : verdict'[q] = verdict[q]
    BY <1>1, <2>2, <2>3 DEF ResourceInv, TypeOK
  <2>5. espFlight = None /\ \A i \in DOMAIN rxQueue : ~IsReport(rxQueue[i])
    BY <1>1, <2>2, PlaceMeaning
  <2>6. ReportPlaces' = {}
    BY <1>1, <1>2, <2>5, PlaceMeaningNext DEF IsReport
  <2>7. ReportsAreCurrent'
    BY <1>1, <1>2, <2>5 DEF ReportsAreCurrent, IsReport, ToSet
  <2>8. CurrentAccounted'
    BY <1>1, <1>2, <2>4, <2>6 DEF CurrentAccounted
  <2>9. AcceptedRequests' /\ AnswerInv'
    BY <1>1, <1>2, <2>2, <2>4
       DEF SendInv, AcceptedRequests, AnswerInv, ToSet, IsInjective
  <2> QED
    BY <2>7, <2>8, <2>9 DEF SendInv
<1> QED
  BY <1>3, <1>4

\* The Wi-Fi task's push puts the report where it was due in the queue.
LEMMA WifiPushSend ==
    ASSUME ResourceInv, SendInv, WifiPush, HasRoom(rxQueue, RxQueueCap)
    PROVE  SendInv'
<1>1. /\ UNCHANGED <<espFlight, txQueue, current, pc, outcome, verdict>>
      /\ wifiHeld \in Packets /\ wifiHeld' = None
      /\ rxQueue' = Append(rxQueue, wifiHeld) /\ rxQueue \in Seq(Packets)
  BY DEF WifiPush, driverVars, txVars, loopVars, ResourceInv, TypeOK
<1>2. ToSet(rxQueue') = ToSet(rxQueue) \cup {wifiHeld}
  BY <1>1, AppendElements
<1>3. ReportsAreCurrent'
  BY <1>1, <1>2 DEF SendInv, ReportsAreCurrent, IsReport
<1>4. /\ Len(rxQueue) \in Nat /\ DOMAIN rxQueue = 1..Len(rxQueue)
      /\ Len(rxQueue') = Len(rxQueue) + 1 /\ DOMAIN rxQueue' = 1..Len(rxQueue)+1
      /\ rxQueue'[Len(rxQueue)+1] = wifiHeld
      /\ \A i \in 1..Len(rxQueue) : rxQueue'[i] = rxQueue[i]
  BY <1>1, AppendProperties
\* The packet of the task becomes the last of the queue; the driver moves back.
<1> DEFINE moved(i) == IF i = Len(rxQueue) + 2 THEN Len(rxQueue) + 3 ELSE i
<1>5. ASSUME NEW i \in 1..Len(rxQueue)+2
      PROVE  i \in ReportPlaces <=> moved(i) \in ReportPlaces'
  <2>1. CASE i \in 1..Len(rxQueue)
    <3>1. IsReport(rxQueue'[i]) <=> IsReport(rxQueue[i])
      BY <1>4, <2>1
    <3> QED
      BY <1>4, <2>1, <3>1, PlaceMeaning, PlaceMeaningNext
  <2>2. CASE i = Len(rxQueue) + 1
    <3>1. IsReport(rxQueue'[i]) <=> IsReport(wifiHeld)
      BY <1>4, <2>2
    <3> QED
      BY <1>4, <2>2, <3>1, PlaceMeaning, PlaceMeaningNext
  <2>3. CASE i = Len(rxQueue) + 2
    BY <1>1, <1>4, <2>3, PlaceMeaning, PlaceMeaningNext
  <2> QED
    BY <1>4, <2>1, <2>2, <2>3
<1>6. CurrentAccounted'
  <2>1. ReportPlaces \subseteq 1..Len(rxQueue)+2
    BY <1>4, PlaceMeaning
  <2>2. \A k \in ReportPlaces' : \E i \in 1..Len(rxQueue)+2 : k = moved(i)
    <3>1. ~IsReport(wifiHeld')
      BY <1>1 DEF IsReport
    <3> QED
      BY <1>4, <3>1, PlaceMeaningNext
  <2>3. /\ \A i, j \in ReportPlaces' : i = j
        /\ ReportPlaces' = {} <=> ReportPlaces = {}
    BY <1>5, <2>1, <2>2 DEF SendInv, CurrentAccounted
  <2> QED
    BY <1>1, <2>3 DEF SendInv, CurrentAccounted, InCallback
<1>7. AcceptedRequests' /\ AnswerInv'
  BY <1>1 DEF SendInv, AcceptedRequests, AnswerInv, InCallback, ToSet, IsInjective
<1> QED
  BY <1>3, <1>6, <1>7 DEF SendInv

\* Every step keeps the invariant of the send side.
LEMMA SendStep == ResourceInv /\ SendInv /\ [Next]_vars => SendInv'
<1> SUFFICES ASSUME ResourceInv, SendInv, [Next]_vars PROVE SendInv'
  OBVIOUS
<1> USE DEF componentVars, driverVars, rxVars, txVars, loopVars, historyVars
<1>1. CASE Setup
  <2>1. ASSUME NEW stage \in Stages, Enable_(stage) PROVE SendInv'
    BY <1>1, <2>1, QuietStep DEF Setup, Enable_
  <2>2. CASE ~EnableOnBoot
    BY <1>1, <2>2, QuietStep DEF Setup
  <2> QED
    BY <1>1, <2>1, <2>2 DEF Setup
<1>2. CASE Enable
  BY <1>2, QuietStep DEF Enable, Enable_
<1>3. CASE Disable
  BY <1>3, DisableSend
<1>4. CASE ApplyWifiChannel \/ WifiToggle
  BY <1>4, QuietStep DEF ApplyWifiChannel, WifiToggle
<1>5. ASSUME NEW a \in AnyAddress, AddPeer(a) \/ DelPeer(a) PROVE SendInv'
  BY <1>5, QuietStep DEF AddPeer, DelPeer
<1>6. ASSUME NEW r \in Requests, Send(r) PROVE SendInv'
  BY <1>6, CallSend
<1>7. CASE LoopBegin \/ DeliverDone \/ Drained \/ UnknownDone
  BY <1>7, QuietStep DEF LoopBegin, DeliverDone, Drained, UnknownDone
<1>8. CASE Release
  BY <1>8, QuietStep DEF Release
<1>9. CASE PopReceived
  BY <1>9, PopReceivedSend
<1>10. CASE PopSent
  BY <1>10, PopSentSend
<1>11. CASE SentDone \/ UnsentDone
  BY <1>11, CallbackSend
<1>12. CASE TxSend
  BY <1>12, TxSendSend
<1>13. CASE TxError
  BY <1>13, TxErrorSend
<1>14. ASSUME NEW src \in AnyAddress, OnDataReceived(src) PROVE SendInv'
  BY <1>14, DataReceivedSend
<1>15. ASSUME NEW status \in Statuses, OnSendReport(status) PROVE SendInv'
  BY <1>15, SendReportSend
<1>16. CASE WifiPush
  BY <1>16, WifiPushSend, WifiPushLeak
<1>17. CASE UNCHANGED vars
  BY <1>17, QuietStep DEF vars
<1> QED
  BY <1>1, <1>2, <1>3, <1>4, <1>5, <1>6, <1>7, <1>8, <1>9, <1>10, <1>11, <1>12,
     <1>13, <1>14, <1>15, <1>16, <1>17
     DEF Next, UserStep, LoopStep, WifiStep, SendReport, Statuses

\* The strengthening: the three properties below and AnswerInv.
LEMMA SendAccounting == Spec => []SendInv
<1>1. Init => ResourceInv /\ SendInv
  BY ResourceInit, SendInit
<1>2. ResourceInv /\ SendInv /\ [Next]_vars => (ResourceInv /\ SendInv)'
  BY ResourceStep, SendStep
<1> QED
  BY <1>1, <1>2, PTL DEF Spec

\* A report is only ever applied to the request it is the report of.
THEOREM ReportsAttributed == Spec => []ReportsAreCurrent
<1> QED
  BY SendAccounting, PTL DEF SendInv

\* The sender waits only for a report that is on its way or has been lost.
THEOREM SenderAccounted == Spec => []CurrentAccounted
<1> QED
  BY SendAccounting, PTL DEF SendInv

\* An accepted request is neither forgotten nor queued twice.
THEOREM RequestsKept == Spec => []AcceptedRequests
<1> QED
  BY SendAccounting, PTL DEF SendInv

\* The program stops only in the callback of a request that was made without one, of
\* whose frame the driver has reported.
StoppedByReport ==
    pc = "aborted" => current \in Silent /\ verdict[current] \in Statuses

THEOREM StopsInCallback == Spec => []StoppedByReport
<1>1. Init => StoppedByReport
  BY DEF Init, StoppedByReport
<1>2. ResourceInv /\ SendInv /\ StoppedByReport /\ [Next]_vars => StoppedByReport'
  <2> SUFFICES ASSUME ResourceInv, SendInv, StoppedByReport, [Next]_vars,
                      pc' = "aborted"
               PROVE  current' \in Silent /\ verdict'[current'] \in Statuses
    BY DEF StoppedByReport
  <2> USE DEF componentVars, driverVars, rxVars, txVars, loopVars, historyVars
  <2>1. CASE PopSent
    <3>1. UNCHANGED <<current, verdict>> /\ verdict[current] \in Statuses
      BY <2>1, PoppedReport DEF PopSent
    <3>2. current \in Silent
      BY <2>1 DEF PopSent
    <3> QED
      BY <3>1, <3>2
  <2>2. CASE UNCHANGED vars
    BY <2>2 DEF vars, StoppedByReport
  <2>3. CASE UserStep \/ WifiStep
    BY <2>3 DEF UserStep, WifiStep, Enable, Disable, ApplyWifiChannel, WifiToggle, AddPeer,
       DelPeer, Send, OnDataReceived, SendReport, OnSendReport, WifiPush, UserCode, Running
  <2>4. CASE LoopStep /\ ~PopSent
    BY <2>4 DEF LoopStep, Setup, LoopBegin, PopReceived, UnknownDone, DeliverDone,
       SentDone, Release, Drained, TxSend, TxError, UnsentDone
  <2> QED
    BY <2>1, <2>2, <2>3, <2>4 DEF Next
<1> QED
  BY Resources, SendAccounting, <1>1, <1>2, PTL DEF Spec

-----------------------------------------------------------------------------
(* The send service.                                                        *)

\* The component starts as the send service does.
LEMMA ServiceInit == Init => Service!Init
BY DEF Init, Service!Init, Active, InCallback

\* Every step of the component is a step of the send service, or leaves its
\* variables alone.
LEMMA ServiceStep ==
    ResourceInv /\ SendInv /\ [Next]_vars => [Service!Next]_(Service!serviceVars)
<1> SUFFICES ASSUME ResourceInv, SendInv, [Next]_vars
             PROVE  [Service!Next]_(Service!serviceVars)
  OBVIOUS
<1> USE DEF componentVars, driverVars, rxVars, txVars, loopVars, historyVars, Active
<1> DEFINE Quiet == UNCHANGED <<txQueue, Active, outcome, verdict>>
<1>0. ASSUME Quiet PROVE [Service!Next]_(Service!serviceVars)
  BY <1>0 DEF Service!serviceVars, Active
<1>1. CASE Setup
  BY <1>0, <1>1 DEF Setup, Enable_, InCallback
<1>2. CASE Enable \/ ApplyWifiChannel \/ WifiToggle
  BY <1>0, <1>2 DEF Enable, Enable_, ApplyWifiChannel, WifiToggle, InCallback
<1>3. CASE Disable
  <2>1. CASE espFlight = None
    <3>1. verdict' = verdict
      BY <1>3, <2>1, RequestAssumption DEF Disable, ResourceInv, TypeOK
    <3> QED
      BY <1>0, <1>3, <3>1 DEF Disable, InCallback
  <2>2. CASE espFlight # None
    <3>1. /\ current \in Requests /\ ~InCallback /\ espFlight = current
          /\ verdict[current] = "none"
      BY <2>2, AwaitedRequest, PlaceMeaning DEF SendInv, ReportsAreCurrent
    <3>2. verdict' = [verdict EXCEPT ![current] = "lost"]
      BY <1>3, <3>1 DEF Disable, ResourceInv, TypeOK
    <3>3. outcome[current] = "pending"
      BY <2>2, AwaitedRequest, PlaceMeaning
    <3>4. Service!Lose
      BY <1>3, <3>1, <3>2, <3>3, RequestAssumption DEF Service!Lose, Disable, InCallback
    <3> QED
      BY <3>4 DEF Service!Next
  <2> QED
    BY <2>1, <2>2
<1>4. ASSUME NEW a \in AnyAddress, AddPeer(a) \/ DelPeer(a)
      PROVE  [Service!Next]_(Service!serviceVars)
  BY <1>0, <1>4 DEF AddPeer, DelPeer, InCallback
<1>5. ASSUME NEW r \in Requests, Send(r)
      PROVE  [Service!Next]_(Service!serviceVars)
  <2>1. UNCHANGED <<current, pc>> /\ outcome[r] = "new"
    BY <1>5 DEF Send
  <2>2. CASE CanAllocate(txFree) /\ Accept(r)
    <3>1. Service!Accept(r) \/ Service!Forget(r)
      BY <2>1, <2>2 DEF Accept, Service!Accept, Service!Forget, InCallback
    <3> QED
      BY <3>1 DEF Service!Next
  <2>3. CASE Refuse(r)
    BY <2>1, <2>3 DEF Refuse, Service!Refuse, Service!Next, InCallback
  <2> QED
    BY <1>5, <2>2, <2>3 DEF Send
<1>6. CASE LoopBegin \/ DeliverDone \/ Drained \/ UnknownDone \/ Release \/ PopReceived
  BY <1>0, <1>6 DEF LoopBegin, DeliverDone, Drained, UnknownDone, Release,
     PopReceived, Pop, InCallback
<1>7. CASE PopSent
  <2>1. CASE pc' = "aborted" /\ outcome' = outcome
    BY <1>0, <1>7, <2>1 DEF PopSent, Pop, InCallback
  <2>2. CASE pc' = "sent" /\ outcome' = [outcome EXCEPT ![current] = verdict[current]]
    <3>1. current # None
      BY <1>7, PoppedReport, RequestAssumption
    <3>2. Service!Complete
      BY <1>7, <2>2, <3>1, PoppedReport
         DEF PopSent, Service!Complete, InCallback, Statuses
    <3> QED
      BY <3>2 DEF Service!Next
  <2> QED
    BY <1>7, <2>1, <2>2, PoppedReport, RequestAssumption DEF PopSent
<1>8. CASE SentDone \/ UnsentDone
  BY <1>0, <1>8 DEF SentDone, UnsentDone, InCallback
<1>9. CASE TxSend
  <2>1. Service!Start
    BY <1>9, TxHead DEF TxSend, Service!Start, Service!Ready, InCallback
  <2> QED
    BY <2>1 DEF Service!Next
<1>10. CASE TxError
  <2>1. Service!Fail
    BY <1>10, TxHead DEF TxError, Service!Fail, Service!Ready, InCallback
  <2> QED
    BY <2>1 DEF Service!Next
<1>11. ASSUME NEW src \in AnyAddress, OnDataReceived(src)
       PROVE  [Service!Next]_(Service!serviceVars)
  BY <1>0, <1>11 DEF OnDataReceived, InCallback
<1>12. ASSUME NEW status \in Statuses, OnSendReport(status)
       PROVE  [Service!Next]_(Service!serviceVars)
  <2>1. /\ current \in Requests /\ ~InCallback /\ espFlight = current
        /\ verdict[current] = "none" /\ outcome[current] = "pending"
    BY <1>12, AwaitedRequest, PlaceMeaning
       DEF OnSendReport, SendInv, ReportsAreCurrent
  <2>2. Service!Decide(status) \/ Service!Lose
    BY <1>12, <2>1, RequestAssumption
       DEF OnSendReport, Service!Decide, Service!Lose, InCallback
  <2> QED
    BY <2>2 DEF Service!Next, Statuses
<1>13. CASE WifiPush
  <2>1. UNCHANGED <<txQueue, current, pc, outcome>>
    BY <1>13 DEF WifiPush
  <2>2. CASE verdict' = verdict
    BY <1>0, <2>1, <2>2 DEF InCallback
  <2>3. CASE verdict' # verdict
    <3>1. IsReport(wifiHeld) /\ verdict' = [verdict EXCEPT ![wifiHeld.req] = "lost"]
      BY <1>13, <2>3 DEF WifiPush, IsReport
    <3>2. /\ current \in Requests /\ ~InCallback /\ outcome[current] = "pending"
          /\ wifiHeld.req = current
      BY <3>1, AwaitedRequest, PlaceMeaning DEF SendInv, ReportsAreCurrent
    <3>3. Service!Lose
      BY <2>1, <3>1, <3>2, RequestAssumption DEF Service!Lose, InCallback
    <3> QED
      BY <3>3 DEF Service!Next
  <2> QED
    BY <2>2, <2>3
<1>14. CASE UNCHANGED vars
  BY <1>0, <1>14 DEF vars, InCallback
<1> QED
  BY <1>1, <1>2, <1>3, <1>4, <1>5, <1>6, <1>7, <1>8, <1>9, <1>10, <1>11, <1>12,
     <1>13, <1>14
     DEF Next, UserStep, LoopStep, WifiStep, SendReport, Statuses

\* The component implements the send service.
THEOREM Refinement == Spec => ImplementsService
<1>1. Spec => [](ResourceInv /\ SendInv)
  BY Resources, SendAccounting, PTL
<1> QED
  BY <1>1, ServiceInit, ServiceStep, PTL DEF Spec, ImplementsService, Service!Spec

-----------------------------------------------------------------------------
(* What the callers see.                                                    *)

\* A sequence with an element in front.
LEMMA PrependElement ==
    ASSUME NEW S, NEW s \in Seq(S), NEW a \in S
    PROVE  /\ <<a>> \o s # <<>> /\ Head(<<a>> \o s) = a /\ Tail(<<a>> \o s) = s
           /\ ToSet(<<a>> \o s) = {a} \cup ToSet(s)
<1>1. /\ <<a>> \o s \in Seq(S) /\ Len(<<a>> \o s) = Len(s) + 1 /\ Len(s) \in Nat
      /\ (<<a>> \o s)[1] = a /\ \A i \in 1..Len(s) : (<<a>> \o s)[i+1] = s[i]
  BY ConcatProperties, LenProperties
<1>2. <<a>> \o s # <<>> /\ Head(<<a>> \o s) = a
  BY <1>1
<1>3. /\ Tail(<<a>> \o s) \in Seq(S) /\ Len(Tail(<<a>> \o s)) = Len(s)
      /\ \A i \in 1..Len(s) : Tail(<<a>> \o s)[i] = s[i]
  BY <1>1, <1>2, HeadTailProperties
<1>4. Tail(<<a>> \o s) = s
  BY <1>3, SeqEqual
<1>5. ToSet(<<a>> \o s) = {a} \cup ToSet(s)
  <2>1. DOMAIN (<<a>> \o s) = 1..Len(s)+1 /\ DOMAIN s = 1..Len(s)
    BY <1>1, LenProperties
  <2>2. \A i \in 1..Len(s)+1 : i = 1 \/ (i-1 \in 1..Len(s) /\ i = (i-1)+1)
    BY <1>1
  <2>3. \A x : x \in ToSet(<<a>> \o s) => x \in {a} \cup ToSet(s)
    BY <1>1, <2>1, <2>2 DEF ToSet
  <2>4. a \in ToSet(<<a>> \o s)
    BY <1>1, <2>1 DEF ToSet
  <2>5. ASSUME NEW i \in 1..Len(s) PROVE s[i] \in ToSet(<<a>> \o s)
    <3>1. i+1 \in DOMAIN (<<a>> \o s) /\ (<<a>> \o s)[i+1] = s[i]
      BY <1>1, <2>1
    <3> QED
      BY <3>1 DEF ToSet
  <2> QED
    BY <2>1, <2>3, <2>4, <2>5 DEF ToSet
<1> QED
  BY <1>2, <1>4, <1>5

\* A sequence is its head in front of its tail.
LEMMA HeadBeforeTail ==
    ASSUME NEW S, NEW s \in Seq(S), s # <<>>
    PROVE  s = <<Head(s)>> \o Tail(s)
<1>1. /\ Head(s) \in S /\ Head(s) = s[1] /\ Tail(s) \in Seq(S)
      /\ Len(Tail(s)) = Len(s) - 1 /\ Len(s) \in Nat
      /\ \A i \in 1..Len(s)-1 : Tail(s)[i] = s[i+1]
  BY HeadTailProperties, LenProperties
<1>2. <<Head(s)>> \in Seq(S) /\ Len(<<Head(s)>>) = 1 /\ <<Head(s)>>[1] = Head(s)
  BY <1>1
<1> DEFINE t == <<Head(s)>> \o Tail(s)
<1>3. /\ t \in Seq(S) /\ Len(t) = Len(s)
      /\ \A i \in 1..Len(s) : t[i] = IF i <= 1 THEN Head(s) ELSE Tail(s)[i-1]
  BY <1>1, <1>2, ConcatProperties
<1> HIDE DEF t
<1>4. \A i \in 1..Len(s) : t[i] = s[i]
  <2>1. \A i \in 1..Len(s) : i = 1 \/ (i > 1 /\ i-1 \in 1..Len(s)-1 /\ (i-1)+1 = i)
    BY <1>1
  <2> QED
    BY <1>1, <1>3, <2>1
<1>5. t = s
  BY <1>3, <1>4, SeqEqual
<1> QED
  BY <1>5 DEF t

\* The line of the requests that wait.
LEMMA LineFacts ==
    ASSUME TypeOK
    PROVE  /\ Active \in Requests \cup {None}
           /\ Active = None => Line = txQueue
           /\ Active # None => /\ Line # <<>> /\ Head(Line) = Active /\ Tail(Line) = txQueue
                               /\ ToSet(Line) = {Active} \cup ToSet(txQueue)
<1>1. Active \in Requests \cup {None} /\ txQueue \in Seq(Requests)
  BY DEF TypeOK, Active
<1>2. CASE Active = None
  <2>1. Line = txQueue
    BY <1>1, <1>2, ConcatEmptySeq DEF Line
  <2> QED
    BY <1>1, <1>2, <2>1
<1>3. CASE Active # None
  BY <1>1, <1>3, PrependElement DEF Line
<1> QED
  BY <1>2, <1>3

\* Every step of the send service is seen by the callers as one of theirs, or not
\* at all.
LEMMA CallersStep ==
    TypeOK /\ TypeOK' /\ AcceptedRequests /\ [Service!Next]_(Service!serviceVars)
      => [Callers!Next]_(Callers!reportVars)
<1> SUFFICES ASSUME TypeOK, TypeOK', AcceptedRequests, [Service!Next]_(Service!serviceVars)
             PROVE  [Callers!Next]_(Callers!reportVars)
  OBVIOUS
<1> USE DEF Callers!reportVars
<1>1. outcome \in [Requests -> Outcomes] /\ txQueue \in Seq(Requests)
  BY DEF TypeOK
<1>2. Active' = None => Line' = txQueue'
  <2>1. txQueue' \in Seq(Requests)
    BY DEF TypeOK
  <2> QED
    BY <2>1, ConcatEmptySeq DEF Line
<1>3. ASSUME NEW r \in Requests, NEW status \in Statuses,
             outcome' = [outcome EXCEPT ![r] = status]
      PROVE  Told' = [Told EXCEPT ![r] = status]
  BY <1>1, <1>3 DEF Told, Statuses, Outcomes
<1>4. ASSUME NEW r \in Requests, outcome[r] = "new"
      PROVE  Callers!Fresh(r)
  <2>1. r \notin ToSet(txQueue) /\ r # Active
    BY <1>4, RequestAssumption DEF AcceptedRequests, Active
  <2>2. Told[r] = "none"
    BY <1>4 DEF Told, Statuses
  <2>3. r \notin ToSet(Line)
    BY <2>1, LineFacts
  <2> QED
    BY <2>2, <2>3 DEF Callers!Fresh, Callers!ToSet, ToSet
<1>5. ASSUME NEW r \in Requests, Service!Refuse(r)
      PROVE  [Callers!Next]_(Callers!reportVars)
  <2>1. Line' = Line
    BY <1>5 DEF Service!Refuse, Line
  <2>2. Told' = [Told EXCEPT ![r] = "error"]
    BY <1>1, <1>5 DEF Service!Refuse, Told, Statuses, Outcomes
  <2> QED
    BY <1>4, <1>5, <2>1, <2>2 DEF Service!Refuse, Callers!Refuse, Callers!Next
<1>6. ASSUME NEW r \in Requests, Service!Accept(r)
      PROVE  [Callers!Next]_(Callers!reportVars)
  <2>1. Line' = Append(Line, r)
    <3> DEFINE front == IF Active = None THEN <<>> ELSE <<Active>>
    <3>1. front \in Seq(Requests) /\ <<r>> \in Seq(Requests)
      BY LineFacts
    <3>2. Line = front \o txQueue /\ Line' = front \o Append(txQueue, r)
      BY <1>6 DEF Service!Accept, Line
    <3> HIDE DEF front
    <3>3. front \o txQueue \in Seq(Requests)
      BY <1>1, <3>1, ConcatProperties
    <3>4. Append(txQueue, r) = txQueue \o <<r>>
      BY <1>1, AppendIsConcat
    <3>5. Append(front \o txQueue, r) = (front \o txQueue) \o <<r>>
      BY <3>3, AppendIsConcat
    <3>6. (front \o txQueue) \o <<r>> = front \o (txQueue \o <<r>>)
      BY <1>1, <3>1, ConcatAssociative
    <3> QED
      BY <3>2, <3>4, <3>5, <3>6
  <2>2. Told' = Told
    BY <1>1, <1>6 DEF Service!Accept, Told, Statuses, Outcomes
  <2> QED
    BY <1>4, <1>6, <2>1, <2>2 DEF Service!Accept, Callers!Accept, Callers!Next
<1>7. CASE Service!Start
  <2>1. /\ Active = None /\ txQueue # <<>> /\ Active' = Head(txQueue)
        /\ txQueue' = Tail(txQueue) /\ Told' = Told
    BY <1>7 DEF Service!Start, Service!Ready, Told
  <2>2. Head(txQueue) \in Requests /\ txQueue = <<Head(txQueue)>> \o Tail(txQueue)
    BY <1>1, <2>1, HeadTailProperties, HeadBeforeTail
  <2>3. Line' = txQueue /\ Line = txQueue
    BY <2>1, <2>2, RequestAssumption, LineFacts DEF Line
  <2> QED
    BY <2>1, <2>3
<1>8. CASE Service!Fail
  <2>1. /\ Active = None /\ Active' = None /\ txQueue # <<>> /\ txQueue' = Tail(txQueue)
        /\ outcome' = [outcome EXCEPT ![Head(txQueue)] = "error"]
    BY <1>8 DEF Service!Fail, Service!Ready
  <2>2. Head(txQueue) \in Requests
    BY <1>1, <2>1, HeadTailProperties
  <2>3. Told' = [Told EXCEPT ![Head(Line)] = "error"] /\ Line = txQueue /\ Line' = txQueue'
    BY <1>2, <1>3, <2>1, <2>2, LineFacts DEF Statuses
  <2> QED
    BY <2>1, <2>3 DEF Callers!Report, Callers!Next
<1>9. CASE Service!Complete
  <2>1. /\ Active \in Requests /\ Active' = None /\ txQueue' = txQueue
        /\ verdict[Active] \in Statuses
        /\ outcome' = [outcome EXCEPT ![Active] = verdict[Active]]
    BY <1>9, LineFacts DEF Service!Complete, Statuses
  <2>2. /\ Told' = [Told EXCEPT ![Head(Line)] = verdict[Active]]
        /\ Line # <<>> /\ Line' = Tail(Line)
    BY <1>2, <1>3, <2>1, RequestAssumption, LineFacts
  <2> QED
    BY <2>1, <2>2 DEF Callers!Report, Callers!Next, Statuses
<1>10. CASE \/ (\E fate \in {"ok", "error"} : Service!Decide(fate)) \/ Service!Lose
            \/ UNCHANGED Service!serviceVars
  BY <1>10 DEF Service!Decide, Service!Lose, Service!serviceVars, Line, Told
<1>11. ASSUME NEW r \in Requests, Service!Forget(r)
       PROVE  [Callers!Next]_(Callers!reportVars)
  <2>1. Line' = Line
    BY <1>11 DEF Service!Forget, Line
  <2>2. Told' = Told
    BY <1>1, <1>11 DEF Service!Forget, Told, Statuses, Outcomes
  <2> QED
    BY <2>1, <2>2
<1> QED
  BY <1>5, <1>6, <1>7, <1>8, <1>9, <1>10, <1>11 DEF Service!Next

\* The callers of send() are told of their requests in the order of the calls,
\* each once.
THEOREM InOrder == Spec => ToldInOrder
<1>1. Init => Callers!Init
  <2> SUFFICES ASSUME Init PROVE Callers!Init
    OBVIOUS
  <2>1. Line = <<>>
    BY DEF Init, Line, Active
  <2> QED
    BY <2>1 DEF Init, Callers!Init, Told, Statuses
<1>2. ResourceInv /\ SendInv /\ [Next]_vars => [Callers!Next]_(Callers!reportVars)
  BY ServiceStep, CallersStep, ResourceStep DEF ResourceInv, SendInv
<1> QED
  BY Resources, SendAccounting, <1>1, <1>2, PTL DEF Spec, ToldInOrder, Callers!Spec

-----------------------------------------------------------------------------
(* The peer tables.                                                         *)

\* Before setup() the driver has no peers.
LEMMA PeerInit == Init => PeerTables
BY AddressAssumption DEF Init, PeerTables

\* add_peer() keeps the tables consistent.
LEMMA AddPeerTables ==
    ASSUME TypeOK, PeerTables, NEW a \in AnyAddress, NEW driverOk \in BOOLEAN,
           AddPeerTo(a, driverOk)
    PROVE  PeerTables' /\ espPeers \subseteq espPeers'
<1>1. CASE PeerAddable(a, driverOk) /\ a \notin ToSet(peers)
  <2>1. /\ peers' = Append(peers, a) /\ espPeers' = espPeers \cup {a} /\ a # Own
        /\ peers \in Seq(AnyAddress)
    BY <1>1 DEF AddPeerTo, PeerAddable, TypeOK
  <2>2. /\ ToSet(peers') = ToSet(peers) \cup {a}
        /\ IsInjective(peers) => IsInjective(peers')
    BY <1>1, <2>1, AppendElements
  <2> QED
    BY <2>1, <2>2 DEF PeerTables
<1>2. CASE PeerAddable(a, driverOk) /\ a \in ToSet(peers)
  BY <1>2 DEF AddPeerTo, PeerAddable, PeerTables, ToSet, IsInjective
<1>3. CASE ~PeerAddable(a, driverOk)
  BY <1>3 DEF AddPeerTo, PeerTables, ToSet, IsInjective
<1> QED
  BY <1>1, <1>2, <1>3

\* Every step keeps the peer tables consistent.
LEMMA PeerStep == ResourceInv /\ PeerTables /\ [Next]_vars => PeerTables'
<1> SUFFICES ASSUME ResourceInv, PeerTables, [Next]_vars PROVE PeerTables'
  OBVIOUS
<1> USE DEF componentVars, driverVars, rxVars, txVars, loopVars, historyVars
<1> DEFINE Same == UNCHANGED <<peers, espPeers>>
<1>0. ASSUME Same PROVE PeerTables'
  BY <1>0 DEF PeerTables, ToSet, IsInjective
<1>1. ASSUME NEW stage \in Stages, Enable_(stage) PROVE PeerTables'
  BY <1>1 DEF Enable_, PeerTables, ToSet, IsInjective
<1>2. CASE Setup
  BY <1>0, <1>1, <1>2 DEF Setup
<1>3. CASE Enable
  BY <1>1, <1>3 DEF Enable
<1>4. CASE Disable
  BY <1>4 DEF Disable, PeerTables, ToSet, IsInjective
<1>5. ASSUME NEW a \in AnyAddress, AddPeer(a) PROVE PeerTables'
  BY <1>5, AddPeerTables DEF AddPeer, ResourceInv
<1>6. ASSUME NEW a \in AnyAddress, DelPeer(a) PROVE PeerTables'
  <2>1. /\ peers' = RemoveFirst(peers, a) /\ espPeers' = espPeers \ {a}
        /\ peers \in Seq(AnyAddress)
    BY <1>6 DEF DelPeer, ResourceInv, TypeOK
  <2>2. /\ ToSet(peers) \ {a} \subseteq ToSet(peers')
        /\ IsInjective(peers) => IsInjective(peers')
    BY <2>1, RemoveFirstProperties
  <2> QED
    BY <2>1, <2>2 DEF PeerTables
<1>7. ASSUME NEW r \in Requests, Send(r) PROVE PeerTables'
  <2>1. Dst[r] \in AnyAddress
    BY AddressAssumption
  <2>2. Same \/ \E driverOk \in BOOLEAN : AddPeerTo(Dst[r], driverOk)
    BY <1>7 DEF Send
  <2> QED
    BY <1>0, <2>1, <2>2, AddPeerTables DEF ResourceInv
<1>8. CASE UnknownDone
  <2>1. pkt.src \in AnyAddress
    BY <1>8, PacketFacts DEF UnknownDone, ResourceInv, TypeOK, PhaseInv
  <2>2. Same \/ \E driverOk \in BOOLEAN : AddPeerTo(pkt.src, driverOk)
    BY <1>8 DEF UnknownDone
  <2> QED
    BY <1>0, <2>1, <2>2, AddPeerTables DEF ResourceInv
<1>9. CASE \/ ApplyWifiChannel \/ WifiToggle
           \/ LoopBegin \/ PopReceived \/ DeliverDone \/ PopSent \/ SentDone
           \/ Release \/ Drained \/ TxSend \/ TxError \/ UnsentDone
  BY <1>0, <1>9 DEF ApplyWifiChannel, WifiToggle, LoopBegin, PopReceived,
     DeliverDone, PopSent, SentDone, Release, Drained, TxSend, TxError, UnsentDone
<1>10. CASE WifiStep \/ UNCHANGED vars
  BY <1>0, <1>10 DEF WifiStep, OnDataReceived, SendReport, OnSendReport, WifiPush, vars
<1> QED
  BY <1>2, <1>3, <1>4, <1>5, <1>6, <1>7, <1>8, <1>9, <1>10
     DEF Next, UserStep, LoopStep

\* The component remembers every peer the driver has, and none twice.
THEOREM PeersRemembered == Spec => []PeerTables
<1>1. Init => ResourceInv /\ PeerTables
  BY ResourceInit, PeerInit
<1>2. ResourceInv /\ PeerTables /\ [Next]_vars => (ResourceInv /\ PeerTables)'
  BY ResourceStep, PeerStep
<1> QED
  BY <1>1, <1>2, PTL DEF Spec

\* When the configuration names no peer twice, a deleted peer leaves the list
\* together with the driver's table.
THEOREM DeletedForgotten ==
    ASSUME IsInjective(ConfigPeers)
    PROVE  Spec => DeletedPeerForgotten
<1> DEFINE LeavesList ==
      \A a \in AnyAddress :
        a \in espPeers \ espPeers' /\ espInit' => a \notin ToSet(peers')
<1>1. ResourceInv /\ PeerTables /\ [Next]_vars => [LeavesList]_vars
  <2> SUFFICES ASSUME ResourceInv, PeerTables, Next PROVE LeavesList
    BY DEF vars
  <2> USE DEF componentVars, driverVars, rxVars, txVars, loopVars, historyVars
  <2>1. ASSUME NEW a \in AnyAddress, DelPeer(a) PROVE LeavesList
    <3>1. espPeers \ espPeers' \subseteq {a} /\ a \notin ToSet(peers')
      BY <2>1, RemoveFirstProperties DEF DelPeer, ResourceInv, TypeOK, PeerTables
    <3> QED
      BY <3>1
  <2>2. CASE Disable
    BY <2>2 DEF Disable
  <2>3. CASE espPeers \subseteq espPeers'
    BY <2>3
  <2>4. ASSUME NEW stage \in Stages, Enable_(stage) PROVE espPeers \subseteq espPeers'
    BY <2>4 DEF Enable_
  <2>5. ASSUME NEW a \in AnyAddress, AddPeer(a) PROVE espPeers \subseteq espPeers'
    BY <2>5, AddPeerTables DEF AddPeer, ResourceInv
  <2>6. ASSUME NEW r \in Requests, Send(r) PROVE espPeers \subseteq espPeers'
    BY <2>6 DEF Send, AddPeerTo
  <2>7. CASE UnknownDone
    BY <2>7 DEF UnknownDone, AddPeerTo
  <2>8. CASE Setup \/ Enable
    BY <2>3, <2>4, <2>8 DEF Setup, Enable
  <2>9. CASE \/ ApplyWifiChannel \/ WifiToggle
             \/ LoopBegin \/ PopReceived \/ DeliverDone \/ PopSent \/ SentDone
             \/ Release \/ Drained \/ TxSend \/ TxError \/ UnsentDone
    BY <2>9 DEF ApplyWifiChannel, WifiToggle, LoopBegin, PopReceived,
       DeliverDone, PopSent, SentDone, Release, Drained, TxSend, TxError, UnsentDone
  <2>10. CASE WifiStep
    BY <2>10 DEF WifiStep, OnDataReceived, SendReport, OnSendReport, WifiPush
  <2> QED
    BY <2>1, <2>2, <2>3, <2>5, <2>6, <2>7, <2>8, <2>9, <2>10
       DEF Next, UserStep, LoopStep
<1>2. Spec => [](ResourceInv /\ PeerTables)
  BY Resources, PeersRemembered, PTL
<1> QED
  BY <1>1, <1>2, PTL DEF Spec, DeletedPeerForgotten
=============================================================================
