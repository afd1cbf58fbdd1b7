---------------------------- MODULE DispatchProofs ----------------------------
(***************************************************************************)
(* Theorems about the chains of handlers, for any automations in any order, *)
(* any sources and texts, and however often a controller is registered.     *)
(***************************************************************************)
EXTENDS Dispatch, SequenceTheorems, TLAPS

\* The triggers come first in each chain, as they were configured, and the
\* transport and the controllers behind them; the transport is registered once,
\* with both chains or with none.
ChainsInv ==
    /\ chain["unknown"] = TriggerChain["unknown"]
    /\ \A k \in Chains :
         /\ Len(TriggerChain[k]) <= Len(chain[k])
         /\ \A i \in 1..Len(TriggerChain[k]) : chain[k][i] = TriggerChain[k][i]
         /\ \A i \in 1..Len(chain[k]) :
              i > Len(TriggerChain[k]) => chain[k][i] \in {"transport", "controller"}
         /\ \A i, j \in 1..Len(chain[k]) :
              chain[k][i] = "transport" /\ chain[k][j] = "transport" => i = j
    /\ \A i \in 1..Len(chain["broadcasted"]) : chain["broadcasted"][i] = "transport" =>
         \E j \in 1..Len(chain["received"]) : chain["received"][j] = "transport"

\* Where the packet in hand stands; and as long as the walk of a chain goes on, no
\* handler has claimed it.
WalkInv ==
    /\ stage \in {"idle", "unknown", ChainOf(packet)}
    /\ stage = "unknown" => unknown /\ ~reached
    /\ stage = ChainOf(packet) => reached
    /\ packet = NoPacket => stage = "idle" /\ ~unknown /\ ~reached /\ ran = <<>>
    /\ packet # NoPacket /\ stage = "idle" => unknown \/ reached
    /\ stage # "idle" =>
         (place <= Len(chain[stage]) =>
            \A i \in 1..Len(chain[stage]) : i < place => ~Claims(chain[stage][i], packet))

\* The walks of the packet in hand have passed place i of chain k.
Passed(k, i) ==
    /\ \/ k = "unknown" /\ unknown
       \/ k = ChainOf(packet) /\ reached
    /\ stage = k => i < place

Ran(v) == v \in ToSet(ran)

\* The history holds visits to places that were passed, in their order, and every
\* one to a trigger that asks for the packet.
RanInv ==
    /\ \A i, j \in 1..Len(ran) : i < j => Before(ran[i], ran[j])
    /\ \A v \in ToSet(ran) :
         /\ v.place \in 1..Len(chain[v.chain]) /\ chain[v.chain][v.place] = v.handler
         /\ Passed(v.chain, v.place) /\ Acts(v.handler, packet)
    /\ \A k \in Chains : \A i \in 1..Len(TriggerChain[k]) :
         Passed(k, i) /\ Asks(TriggerChain[k][i]) => Ran(Visit(TriggerChain[k][i], k, i))

\* A controller in front of place t of chain k claims the packet.
Kept(k, t) ==
    /\ Valid(packet.text)
    /\ \E i \in 1..Len(chain[k]) : i < t /\ chain[k][i] = "controller"

\* The transport has run where it was passed, unless the packet was kept from it.
TransportInv ==
    \A k \in {"received", "broadcasted"} : \A t \in 1..Len(chain[k]) :
      chain[k][t] = "transport" /\ Passed(k, t) /\ packet.text # <<>> =>
        (Ran(Visit("transport", k, t)) <=> ~Kept(k, t))

\* The inductive invariant.
DispatchInv == TypeOK /\ ChainsInv /\ WalkInv /\ RanInv /\ TransportInv

-----------------------------------------------------------------------------
(* Facts about the operators.                                               *)

\* The chains and their places.
LEMMA ChainFacts ==
    ASSUME TypeOK
    PROVE  /\ \A k \in Chains :
                /\ chain[k] \in Seq(Handlers) /\ Len(chain[k]) \in Nat
                /\ TriggerChain[k] \in Seq(Triggers) /\ Len(TriggerChain[k]) \in Nat
                /\ DOMAIN TriggerChain[k] = 1..Len(TriggerChain[k])
                /\ \A i \in 1..Len(TriggerChain[k]) : TriggerChain[k][i] \in Triggers
           /\ Len(ran) \in Nat /\ DOMAIN ran = 1..Len(ran)
           /\ \A j \in 1..Len(ran) : ran[j] \in Visits
           /\ \A v : Ran(v) <=> \E j \in 1..Len(ran) : ran[j] = v
<1>1. ASSUME NEW k \in Chains
      PROVE  /\ chain[k] \in Seq(Handlers) /\ Len(chain[k]) \in Nat
             /\ TriggerChain[k] \in Seq(Triggers) /\ Len(TriggerChain[k]) \in Nat
             /\ DOMAIN TriggerChain[k] = 1..Len(TriggerChain[k])
             /\ \A i \in 1..Len(TriggerChain[k]) : TriggerChain[k][i] \in Triggers
  <2>1. chain[k] \in Seq(Handlers) /\ TriggerChain[k] \in Seq(Triggers)
    BY TriggerAssumption DEF TypeOK
  <2> QED
    BY <2>1, LenProperties, ElementOfSeq
<1>2. /\ Len(ran) \in Nat /\ DOMAIN ran = 1..Len(ran)
      /\ \A j \in 1..Len(ran) : ran[j] \in Visits
      /\ \A v : Ran(v) <=> \E j \in 1..Len(ran) : ran[j] = v
  BY LenProperties, ElementOfSeq DEF TypeOK, Ran, ToSet
<1> QED
  BY <1>1, <1>2

\* The fields of a visit tell it from every other one.
LEMMA VisitFacts ==
    /\ \A h, k, i : /\ Visit(h, k, i).handler = h /\ Visit(h, k, i).chain = k
                    /\ Visit(h, k, i).place = i
    /\ \A h \in Handlers, k \in Chains, i \in Nat : Visit(h, k, i) \in Visits
    /\ \A v \in Visits : v.handler \in Handlers /\ v.chain \in Chains /\ v.place \in Nat
                         /\ v = Visit(v.handler, v.chain, v.place)
BY DEF Visit, Visits

\* A packet goes to the chain of received or of broadcasted packets.
LEMMA ChainOfFacts == \A p : ChainOf(p) \in {"received", "broadcasted"}
BY DEF ChainOf

\* No source is called "nobody".
LEMMA PacketIsReal == \A p \in Packets : p # NoPacket
BY TriggerAssumption DEF Packets, Packet, NoPacket

\* Triggers are handlers other than the transport and the controllers: they act on
\* the packets they ask for and claim none.
LEMMA TriggerFacts ==
    /\ \A h \in Triggers : h # "transport" /\ h # "controller" /\ h \in Handlers
    /\ \A h \in Triggers : Acts(h, packet) <=> Asks(h)
    /\ Acts("transport", packet) <=> packet.text # <<>>
    /\ ~ Acts("controller", packet)
<1>1. \A h \in Triggers : h # "transport" /\ h # "controller" /\ h \in Handlers
  BY TriggerAssumption DEF Handlers
<1>2. \A h \in Triggers : Acts(h, packet) <=> Asks(h)
  BY <1>1 DEF Acts, Asks
<1> QED
  BY <1>1, <1>2 DEF Acts

-----------------------------------------------------------------------------
(* The steps.                                                               *)

\* At first only the triggers are registered, and no packet was taken.
LEMMA DispatchInit == Init => DispatchInv
<1> SUFFICES ASSUME Init PROVE DispatchInv
  OBVIOUS
<1>1. TypeOK
  <2>1. chain \in [Chains -> Seq(Handlers)]
    <3>1. \A k \in Chains : TriggerChain[k] \in Seq(Handlers)
      BY TriggerAssumption, SeqMonotonic DEF Handlers
    <3> QED
      BY <3>1, TriggerAssumption DEF Init
  <2>2. ran \in Seq(Visits)
    BY DEF Init
  <2>3. place \in 1..(IF stage = "idle" THEN 1 ELSE Len(chain[stage]) + 1)
    BY DEF Init
  <2> QED
    BY <2>1, <2>2, <2>3 DEF Init, TypeOK
<1>2. ChainsInv
  <2>1. \A k \in Chains : \A i \in 1..Len(chain[k]) : chain[k][i] \in Triggers /\ chain[k][i] # "transport"
    BY <1>1, ChainFacts, TriggerFacts DEF Init
  <2>2. \A k \in Chains : Len(chain[k]) \in Nat
    BY <1>1, ChainFacts
  <2> QED
    BY <2>1, <2>2 DEF Init, ChainsInv, Chains
<1>3. WalkInv
  BY ChainOfFacts DEF Init, WalkInv
<1>4. Len(ran) = 0 /\ \A k, i : ~ Passed(k, i)
  BY DEF Init, Passed
<1>5. RanInv
  <2>1. 1..Len(ran) = {} /\ ToSet(ran) = {}
    BY <1>4 DEF Init, ToSet
  <2> QED
    BY <1>4, <2>1 DEF RanInv
<1>6. TransportInv
  BY <1>4 DEF TransportInv
<1> QED
  BY <1>1, <1>2, <1>3, <1>5, <1>6 DEF DispatchInv

\* The history of a packet stays right when no place is passed by the step.
LEMMA NothingPassed ==
    ASSUME DispatchInv, UNCHANGED <<chain, packet, ran>>,
           \A k \in Chains : \A i \in 1..Len(chain[k]) : Passed(k, i)' <=> Passed(k, i)
    PROVE  RanInv' /\ TransportInv'
<1>0. TypeOK /\ ChainsInv /\ RanInv /\ TransportInv
  BY DEF DispatchInv
<1>1. \A k \in Chains : \A i \in 1..Len(TriggerChain[k]) : Passed(k, i)' <=> Passed(k, i)
  BY <1>0, ChainFacts DEF ChainsInv
<1>2. \A v \in ToSet(ran) : v.chain \in Chains
  BY <1>0, ChainFacts, VisitFacts DEF Ran
<1>3. \A v : Ran(v)' <=> Ran(v)
  BY DEF Ran
<1>4. \A h : Asks(h)' <=> Asks(h)
  BY DEF Asks
<1>5. RanInv'
  <2>1. \A i, j \in 1..Len(ran)' : i < j => Before(ran[i], ran[j])'
    BY <1>0 DEF RanInv, Before
  <2>2. ASSUME NEW v \in ToSet(ran)
        PROVE  /\ v.place \in 1..Len(chain[v.chain]) /\ chain[v.chain][v.place] = v.handler
               /\ Passed(v.chain, v.place)' /\ Acts(v.handler, packet)
    BY <1>0, <1>2 DEF RanInv
  <2>3. ASSUME NEW k \in Chains, NEW i \in 1..Len(TriggerChain[k]),
               Passed(k, i)', Asks(TriggerChain[k][i])'
        PROVE  Ran(Visit(TriggerChain[k][i], k, i))'
    BY <1>0, <1>1, <1>3, <1>4, <2>3 DEF RanInv
  <2> QED
    BY <2>1, <2>2, <2>3 DEF RanInv, Acts
<1>6. TransportInv'
  <2>1. \A k, t : Kept(k, t)' <=> Kept(k, t)
    BY DEF Kept
  <2>2. {"received", "broadcasted"} \subseteq Chains
    BY DEF Chains
  <2> QED
    BY <1>0, <1>3, <2>1, <2>2 DEF TransportInv
<1> QED
  BY <1>5, <1>6

\* A registration puts the handler behind the others, in no walk.
LEMMA RegistrationFacts ==
    ASSUME TypeOK, NEW h \in Handlers, RegisterBoth(h)
    PROVE  /\ stage = "idle" /\ UNCHANGED <<paired, walk, story>>
           /\ chain' \in [Chains -> Seq(Handlers)] /\ chain'["unknown"] = chain["unknown"]
           /\ \A k \in Chains : \A i \in 1..Len(chain[k]) :
                i \in 1..Len(chain'[k]) /\ chain'[k][i] = chain[k][i]
           /\ \A k \in Chains : Len(chain[k]) <= Len(chain'[k])
           /\ \A k \in {"received", "broadcasted"} :
                /\ Len(chain'[k]) = Len(chain[k]) + 1 /\ chain'[k][Len(chain[k]) + 1] = h
           /\ \A k \in Chains : Len(chain[k]) \in Nat /\ Len(chain'[k]) \in Nat
<1>1. ASSUME NEW k \in Chains
      PROVE  /\ chain[k] \in Seq(Handlers) /\ Len(chain[k]) \in Nat
             /\ Append(chain[k], h) \in Seq(Handlers)
             /\ Len(Append(chain[k], h)) = Len(chain[k]) + 1
             /\ \A i \in 1..Len(chain[k]) : Append(chain[k], h)[i] = chain[k][i]
             /\ Append(chain[k], h)[Len(chain[k]) + 1] = h
  <2>1. chain[k] \in Seq(Handlers)
    BY DEF TypeOK
  <2> QED
    BY <2>1, LenProperties, AppendProperties
<1>2. chain' = [k \in Chains |-> IF k = "unknown" THEN chain[k] ELSE Append(chain[k], h)]
  BY DEF RegisterBoth, AtBack
<1>3. \A k \in Chains : chain'[k] = IF k = "unknown" THEN chain[k] ELSE Append(chain[k], h)
  BY <1>2
<1>4. stage = "idle" /\ UNCHANGED <<paired, walk, story>>
  BY DEF RegisterBoth
<1>5. chain' \in [Chains -> Seq(Handlers)]
  BY <1>1, <1>2
<1>6. ASSUME NEW k \in Chains
      PROVE  /\ \A i \in 1..Len(chain[k]) :
                  i \in 1..Len(chain'[k]) /\ chain'[k][i] = chain[k][i]
             /\ Len(chain[k]) <= Len(chain'[k])
             /\ Len(chain[k]) \in Nat /\ Len(chain'[k]) \in Nat
  <2>1. CASE k = "unknown"
    BY <1>1, <1>3, <2>1
  <2>2. CASE k # "unknown"
    <3> DEFINE c == Append(chain[k], h)
    <3>1. /\ chain'[k] = c /\ Len(chain[k]) \in Nat /\ Len(c) = Len(chain[k]) + 1
          /\ \A i \in 1..Len(chain[k]) : c[i] = chain[k][i]
      BY <1>1, <1>3, <2>2
    <3> HIDE DEF c
    <3> QED
      BY <3>1
  <2> QED
    BY <2>1, <2>2
<1>7. {"unknown", "received", "broadcasted"} = Chains
  BY DEF Chains
<1>8. \A k \in {"received", "broadcasted"} :
        /\ Len(chain'[k]) = Len(chain[k]) + 1 /\ chain'[k][Len(chain[k]) + 1] = h
  BY <1>1, <1>3, <1>7
<1>9. chain'["unknown"] = chain["unknown"]
  BY <1>3, <1>7
<1> QED
  BY <1>4, <1>5, <1>6, <1>8, <1>9

\* A registration keeps the invariant: the transport registers before any packet
\* is taken, and a controller behind the handlers that were passed.
LEMMA RegistrationKeeps ==
    ASSUME DispatchInv, NEW h \in {"transport", "controller"}, RegisterBoth(h),
           h = "transport" => packet = NoPacket /\ "transport" \notin ToSet(chain["received"])
    PROVE  DispatchInv'
<1>0. TypeOK /\ ChainsInv /\ WalkInv /\ RanInv /\ TransportInv
  BY DEF DispatchInv
<1>1. /\ stage = "idle" /\ UNCHANGED <<paired, walk, story>>
      /\ chain' \in [Chains -> Seq(Handlers)] /\ chain'["unknown"] = chain["unknown"]
      /\ \A k \in Chains : \A i \in 1..Len(chain[k]) :
           i \in 1..Len(chain'[k]) /\ chain'[k][i] = chain[k][i]
      /\ \A k \in Chains : Len(chain[k]) <= Len(chain'[k])
      /\ \A k \in {"received", "broadcasted"} :
           /\ Len(chain'[k]) = Len(chain[k]) + 1 /\ chain'[k][Len(chain[k]) + 1] = h
      /\ \A k \in Chains : Len(chain[k]) \in Nat /\ Len(chain'[k]) \in Nat
  BY <1>0, RegistrationFacts DEF Handlers
<1>2. /\ Chains = {"unknown", "received", "broadcasted"}
      /\ \A k \in Chains : Len(TriggerChain[k]) \in Nat
  BY <1>0, ChainFacts DEF Chains
<1>3. /\ UNCHANGED <<stage, place, packet, ran, unknown, reached>>
  BY <1>1 DEF walk, story
<1>4. TypeOK'
  <2>1. UNCHANGED <<paired, stage, place, packet, ran, unknown, reached>> /\ stage = "idle"
    BY <1>1, <1>3
  <2> QED
    BY <1>0, <1>1, <2>1 DEF TypeOK
<1>5. ASSUME h = "transport"
      PROVE  \A k \in {"received", "broadcasted"} : \A i \in 1..Len(chain[k]) :
               chain[k][i] # "transport"
  <2>1. DOMAIN chain["received"] = 1..Len(chain["received"])
    BY <1>0, LenProperties DEF TypeOK, Chains
  <2>2. \A i \in 1..Len(chain["received"]) : chain["received"][i] # "transport"
    BY <1>5, <2>1 DEF ToSet
  <2> QED
    BY <1>0, <2>2 DEF ChainsInv
<1>6. ChainsInv'
  <2>1. ASSUME NEW k \in Chains
        PROVE  /\ Len(TriggerChain[k]) <= Len(chain'[k])
               /\ \A i \in 1..Len(TriggerChain[k]) : chain'[k][i] = TriggerChain[k][i]
               /\ \A i \in 1..Len(chain'[k]) :
                    i > Len(TriggerChain[k]) => chain'[k][i] \in {"transport", "controller"}
               /\ \A i, j \in 1..Len(chain'[k]) :
                    chain'[k][i] = "transport" /\ chain'[k][j] = "transport" => i = j
    <3>1. /\ Len(TriggerChain[k]) <= Len(chain[k])
          /\ \A i \in 1..Len(TriggerChain[k]) : chain[k][i] = TriggerChain[k][i]
          /\ \A i \in 1..Len(chain[k]) :
               i > Len(TriggerChain[k]) => chain[k][i] \in {"transport", "controller"}
          /\ \A i, j \in 1..Len(chain[k]) :
               chain[k][i] = "transport" /\ chain[k][j] = "transport" => i = j
      BY <1>0 DEF ChainsInv
    <3>2. CASE k = "unknown"
      BY <1>1, <3>1, <3>2
    <3>3. CASE k # "unknown"
      <4>1. k \in {"received", "broadcasted"}
        BY <1>2, <3>3
      <4>2. /\ Len(chain'[k]) = Len(chain[k]) + 1 /\ chain'[k][Len(chain[k]) + 1] = h
            /\ \A i \in 1..Len(chain[k]) : chain'[k][i] = chain[k][i]
            /\ Len(chain[k]) \in Nat
        BY <1>1, <4>1
      <4>3. h = "transport" => \A i \in 1..Len(chain[k]) : chain[k][i] # "transport"
        BY <1>5, <4>1
      <4> DEFINE n == Len(chain[k])
                 c == chain'[k]
      <4>4. Len(TriggerChain[k]) <= Len(c) /\ \A i \in 1..Len(TriggerChain[k]) : c[i] = TriggerChain[k][i]
        BY <1>2, <3>1, <4>2
      <4>5. \A i \in 1..Len(c) : i \in 1..n \/ (i = n + 1 /\ c[i] = h)
        BY <4>2
      <4>6. \A i \in 1..Len(c) :
              i > Len(TriggerChain[k]) => c[i] \in {"transport", "controller"}
        BY <3>1, <4>2, <4>5
      <4>7. \A i, j \in 1..Len(c) : c[i] = "transport" /\ c[j] = "transport" => i = j
        BY <3>1, <4>2, <4>3, <4>5
      <4> QED
        BY <4>4, <4>6, <4>7
    <3> QED
      BY <3>2, <3>3
  <2>2. chain'["unknown"] = TriggerChain["unknown"]
    BY <1>0, <1>1 DEF ChainsInv
  <2>3. ASSUME NEW i \in 1..Len(chain'["broadcasted"]), chain'["broadcasted"][i] = "transport"
        PROVE  \E j \in 1..Len(chain'["received"]) : chain'["received"][j] = "transport"
    <3>1. CASE h = "transport"
      <4>1. Len(chain["received"]) + 1 \in 1..Len(chain'["received"])
        BY <1>1, <1>2
      <4> QED
        BY <1>1, <3>1, <4>1
    <3>2. CASE h # "transport"
      <4>1. i \in 1..Len(chain["broadcasted"]) /\ chain["broadcasted"][i] = "transport"
        BY <1>1, <1>2, <2>3, <3>2
      <4>2. PICK j \in 1..Len(chain["received"]) : chain["received"][j] = "transport"
        BY <1>0, <4>1 DEF ChainsInv
      <4> QED
        BY <1>1, <1>2, <4>2
    <3> QED
      BY <3>1, <3>2
  <2> QED
    BY <2>1, <2>2, <2>3 DEF ChainsInv
<1>7. WalkInv'
  BY <1>0, <1>1, <1>3, ChainOfFacts DEF WalkInv
<1>8. \A k, i : Passed(k, i)' <=> Passed(k, i)
  BY <1>3 DEF Passed
<1>9. \A v : Ran(v)' <=> Ran(v)
  BY <1>3 DEF Ran
<1>10. \A v \in ToSet(ran) : v.chain \in Chains
  BY <1>0, ChainFacts, VisitFacts DEF Ran
<1>11. RanInv'
  <2>1. \A i, j \in 1..Len(ran)' : i < j => Before(ran[i], ran[j])'
    BY <1>0, <1>3 DEF RanInv, Before
  <2>2. ASSUME NEW v \in ToSet(ran)
        PROVE  /\ v.place \in 1..Len(chain'[v.chain]) /\ chain'[v.chain][v.place] = v.handler
               /\ Passed(v.chain, v.place)' /\ Acts(v.handler, packet)
    <3>1. /\ v.place \in 1..Len(chain[v.chain]) /\ chain[v.chain][v.place] = v.handler
          /\ Passed(v.chain, v.place) /\ Acts(v.handler, packet)
      BY <1>0 DEF RanInv
    <3> QED
      BY <1>1, <1>8, <1>10, <3>1
  <2>3. ASSUME NEW k \in Chains, NEW i \in 1..Len(TriggerChain[k]),
               Passed(k, i)', Asks(TriggerChain[k][i])'
        PROVE  Ran(Visit(TriggerChain[k][i], k, i))'
    BY <1>0, <1>3, <1>8, <1>9, <2>3 DEF RanInv, Asks
  <2> QED
    BY <1>3, <2>1, <2>2, <2>3 DEF RanInv, Acts
<1>12. TransportInv'
  <2>1. CASE packet = NoPacket
    BY <1>0, <1>3, <2>1 DEF WalkInv, TransportInv, Passed
  <2>2. CASE h = "controller"
    <3> SUFFICES ASSUME NEW k \in {"received", "broadcasted"}, NEW t \in 1..Len(chain'[k]),
                        chain'[k][t] = "transport", Passed(k, t)', packet'.text # <<>>
                 PROVE  Ran(Visit("transport", k, t))' <=> ~ Kept(k, t)'
      BY DEF TransportInv
    <3>1. /\ t \in 1..Len(chain[k]) /\ chain[k][t] = "transport"
          /\ Len(chain'[k]) = Len(chain[k]) + 1 /\ Len(chain[k]) \in Nat
          /\ \A i \in 1..Len(chain[k]) : chain'[k][i] = chain[k][i]
      <4>1. k \in Chains /\ Len(chain'[k]) = Len(chain[k]) + 1 /\ Len(chain[k]) \in Nat
        BY <1>1, <1>2
      <4>2. chain'[k][Len(chain[k]) + 1] = "controller"
        BY <1>1, <2>2
      <4>3. t \in 1..Len(chain[k]) \/ t = Len(chain[k]) + 1
        BY <4>1
      <4>4. t # Len(chain[k]) + 1
        BY <4>2
      <4> QED
        BY <1>1, <4>1, <4>3, <4>4
    <3>2. Kept(k, t)' <=> Kept(k, t)
      BY <1>3, <3>1 DEF Kept
    <3>3. Ran(Visit("transport", k, t)) <=> ~ Kept(k, t)
      BY <1>0, <1>3, <1>8, <3>1 DEF TransportInv
    <3> QED
      BY <1>9, <3>2, <3>3
  <2> QED
    BY <2>1, <2>2
<1> QED
  BY <1>4, <1>6, <1>7, <1>11, <1>12 DEF DispatchInv

\* A packet that is taken has passed no place yet.
LEMMA TakeKeeps ==
    ASSUME DispatchInv, NEW p \in Packets, Take(p)
    PROVE  DispatchInv'
<1>0. TypeOK /\ ChainsInv
  BY DEF DispatchInv
<1>1. /\ packet' = p /\ ran' = <<>> /\ place' = 1 /\ UNCHANGED <<chain, paired>>
      /\ unknown' \in BOOLEAN /\ reached' \in BOOLEAN
      /\ \/ unknown' /\ stage' = "unknown" /\ ~reached'
         \/ ~unknown' /\ stage' = ChainOf(p) /\ reached'
  BY DEF Take, Lookup
<1>2. \A k \in Chains : Len(chain[k]) \in Nat /\ Len(TriggerChain[k]) \in Nat
  BY <1>0, ChainFacts
<1>3. p # NoPacket /\ ChainOf(p) \in {"received", "broadcasted"}
  BY PacketIsReal, ChainOfFacts
<1>4. stage' \in Chains
  BY <1>1, <1>3 DEF Chains
<1>5. TypeOK'
  <2>1. ran' \in Seq(Visits)
    BY <1>1
  <2>2. place' \in 1..(Len(chain[stage']) + 1)
    BY <1>1, <1>2, <1>4
  <2>3. stage' # "idle"
    BY <1>4 DEF Chains
  <2> QED
    BY <1>0, <1>1, <1>4, <2>1, <2>2, <2>3 DEF TypeOK
<1>6. ChainsInv'
  BY <1>0, <1>1 DEF ChainsInv
<1>7. WalkInv'
  <2>1. stage' # "idle" /\ (stage' = "unknown" \/ stage' = ChainOf(packet)')
    BY <1>1, <1>4 DEF Chains, ChainOf
  <2>2. \A i \in 1..Len(chain[stage']) : ~ (i < place')
    BY <1>1, <1>2, <1>4
  <2> QED
    BY <1>1, <1>3, <2>1, <2>2 DEF WalkInv, ChainOf
<1>8. \A k : \A i \in Nat \ {0} : ~ Passed(k, i)'
  <2>1. unknown' => stage' = "unknown" /\ ~reached'
    BY <1>1
  <2>2. reached' => stage' = ChainOf(packet)' /\ ~unknown'
    BY <1>1 DEF ChainOf
  <2> QED
    BY <1>1, <2>1, <2>2 DEF Passed
<1>9. RanInv'
  <2>1. 1..Len(ran') = {} /\ ToSet(ran') = {}
    BY <1>1, EmptySeq DEF ToSet
  <2>2. \A k \in Chains : \A i \in 1..Len(TriggerChain[k]) : i \in Nat \ {0}
    BY <1>2
  <2> QED
    BY <1>8, <2>1, <2>2 DEF RanInv
<1>10. TransportInv'
  <2>1. \A k \in {"received", "broadcasted"} : \A t \in 1..Len(chain'[k]) : t \in Nat \ {0}
    BY <1>1, <1>2 DEF Chains
  <2> QED
    BY <1>8, <2>1 DEF TransportInv
<1> QED
  BY <1>5, <1>6, <1>7, <1>9, <1>10 DEF DispatchInv

\* The end of a walk passes no further place.
LEMMA WalkEnds ==
    ASSUME DispatchInv, UnknownDone \/ Done
    PROVE  DispatchInv'
<1>0. TypeOK /\ ChainsInv /\ WalkInv /\ RanInv /\ TransportInv
  BY DEF DispatchInv
<1>1. /\ stage \in Chains /\ place > Len(chain[stage]) /\ place' = 1
      /\ UNCHANGED <<chain, packet, ran, unknown>> /\ ChainOf(packet)' = ChainOf(packet)
  BY DEF UnknownDone, Done, story, Chains, ChainOf
<1>2. \A k \in Chains : Len(chain[k]) \in Nat
  BY <1>0, ChainFacts
<1>3. packet # NoPacket /\ ChainOf(packet) \in {"received", "broadcasted"}
  BY <1>0, <1>1, ChainOfFacts DEF WalkInv, Chains
<1>4. packet \in Packets
  BY <1>0, <1>3 DEF TypeOK
<1>5. /\ stage = "unknown" => \/ stage' = ChainOf(packet) /\ reached'
                              \/ stage' = "idle" /\ ~reached'
      /\ stage # "unknown" => stage' = "idle" /\ reached' = reached
      /\ reached' \in BOOLEAN
  BY <1>0 DEF UnknownDone, Done, story, Lookup, TypeOK
<1>6. stage = "unknown" => unknown /\ ~reached
  BY <1>0 DEF WalkInv
<1>7. stage # "unknown" => stage = ChainOf(packet) /\ reached
  BY <1>0, <1>1 DEF WalkInv, Chains
<1>8. TypeOK'
  <2>1. paired' \subseteq Sources
    BY <1>0, <1>4 DEF UnknownDone, Done, UnknownPeers, TypeOK, Packets, Packet
  <2>2. stage' \in Chains \cup {"idle"}
    BY <1>3, <1>5 DEF Chains
  <2>3. place' \in 1..(IF stage' = "idle" THEN 1 ELSE Len(chain[stage']) + 1)
    BY <1>1, <1>2, <2>2
  <2> QED
    BY <1>0, <1>1, <1>5, <2>1, <2>2, <2>3 DEF TypeOK
<1>9. ChainsInv'
  BY <1>0, <1>1 DEF ChainsInv
<1>10. WalkInv'
  <2>1. /\ stage' \in {"idle", ChainOf(packet)} /\ stage' # "unknown"
        /\ stage' = ChainOf(packet) => reached'
    BY <1>3, <1>5
  <2>2. stage' = "idle" => unknown' \/ reached'
    BY <1>1, <1>5, <1>6, <1>7
  <2>3. stage' # "idle" => \A i \in 1..Len(chain[stage']) : ~ (i < place')
    <3>1. stage' # "idle" => stage' \in Chains
      BY <1>3, <2>1 DEF Chains
    <3> QED
      BY <1>1, <1>2, <3>1
  <2> QED
    BY <1>1, <1>3, <2>1, <2>2, <2>3 DEF WalkInv
<1>11. ASSUME NEW k \in Chains, NEW i \in 1..Len(chain[k])
       PROVE  Passed(k, i)' <=> Passed(k, i)
  <2>1. i < place \/ stage # k
    BY <1>1, <1>2, <1>0 DEF TypeOK
  <2>2. ~ (i < place')
    BY <1>1, <1>2
  <2>3. CASE stage = "unknown"
    BY <1>1, <1>3, <1>5, <1>6, <2>1, <2>2, <2>3 DEF Passed
  <2>4. CASE stage # "unknown"
    BY <1>1, <1>3, <1>5, <1>7, <2>1, <2>2, <2>4 DEF Passed, Chains
  <2> QED
    BY <2>3, <2>4
<1>12. RanInv' /\ TransportInv'
  BY <1>1, <1>11, NothingPassed
<1> QED
  BY <1>8, <1>9, <1>10, <1>12 DEF DispatchInv

\* One handler: a trigger or the transport acts where the walk stands, or a
\* controller ends the walk behind every trigger.
LEMMA CallKeeps ==
    ASSUME DispatchInv, Call
    PROVE  DispatchInv'
<1> DEFINE c == chain[stage]
           h == c[place]
           V == Visit(h, stage, place)
           n == Len(ran)
<1>0. TypeOK /\ ChainsInv /\ WalkInv /\ RanInv /\ TransportInv
  BY DEF DispatchInv
<1>1. /\ stage # "idle" /\ place <= Len(c)
      /\ UNCHANGED <<chain, stage, packet, unknown, reached>>
      /\ place' = IF Claims(h, packet) THEN Len(c) + 1 ELSE place + 1
      /\ IF Acts(h, packet)
         THEN /\ ran' = Append(ran, V)
              /\ paired' \in {paired, paired \cup {packet.src}, paired \ {packet.src}}
         ELSE UNCHANGED <<ran, paired>>
  BY DEF Call
<1>2. /\ stage \in Chains /\ place \in 1..Len(c) /\ Len(c) \in Nat /\ place \in Nat
      /\ c \in Seq(Handlers)
      /\ \A k \in Chains : Len(chain[k]) \in Nat
  BY <1>0, <1>1, ChainFacts DEF TypeOK
<1>3. h \in Handlers
  BY <1>2, ElementOfSeq
<1>4. packet \in Packets
  BY <1>0, <1>1 DEF WalkInv, TypeOK
<1>5. /\ n \in Nat /\ ran \in Seq(Visits)
      /\ \A j \in 1..n : ran[j] \in Visits /\ ran[j].chain \in Chains /\ ran[j].place \in Nat
      /\ V \in Visits /\ V.handler = h /\ V.chain = stage /\ V.place = place
  <2>1. V \in Visits /\ V.handler = h /\ V.chain = stage /\ V.place = place
    BY <1>2, <1>3, VisitFacts
  <2> HIDE DEF V
  <2>2. n \in Nat /\ ran \in Seq(Visits) /\ \A j \in 1..n : ran[j] \in Visits
    BY <1>0, ChainFacts DEF TypeOK
  <2> QED
    BY <2>1, <2>2, VisitFacts
<1>6. \/ stage = "unknown" /\ unknown /\ ~reached
      \/ stage = ChainOf(packet) /\ reached
  BY <1>0, <1>1 DEF WalkInv
<1>7. ChainOf(packet) # "unknown" /\ ChainOf(packet)' = ChainOf(packet)
  BY <1>1, ChainOfFacts DEF ChainOf
<1>8. Claims(h, packet) => h = "controller" /\ Valid(packet.text) /\ ~ Acts(h, packet)
  BY TriggerFacts DEF Claims
<1>9. \A i \in 1..Len(TriggerChain[stage]) : c[i] = TriggerChain[stage][i] /\ c[i] \in Triggers
  BY <1>0, <1>2, ChainFacts DEF ChainsInv
<1> HIDE DEF c, h, V, n
\* What the call appends to the history.
<1>10. /\ ran' \in Seq(Visits) /\ Len(ran') \in {n, n+1}
       /\ \A j \in 1..n : ran'[j] = ran[j]
       /\ Len(ran') = n + 1 <=> Acts(h, packet)
       /\ Len(ran') = n + 1 => ran'[n+1] = V
  <2>1. CASE Acts(h, packet)
    <3>1. ran' = Append(ran, V)
      BY <1>1, <2>1 DEF V, h
    <3> QED
      BY <1>5, <2>1, <3>1, AppendProperties DEF n
  <2>2. CASE ~ Acts(h, packet)
    BY <1>1, <1>5, <2>2 DEF n, h
  <2> QED
    BY <2>1, <2>2
<1>11. \A v : Ran(v)' <=> Ran(v) \/ (Acts(h, packet) /\ v = V)
  <2>1. \A v : Ran(v) <=> \E j \in 1..n : ran[j] = v
    BY <1>0, ChainFacts DEF n
  <2>2. DOMAIN ran' = 1..Len(ran')
    BY <1>10, LenProperties
  <2>3. \A v : Ran(v)' <=> \E j \in 1..Len(ran') : ran'[j] = v
    BY <2>2 DEF Ran, ToSet
  <2>4. CASE Acts(h, packet)
    <3>1. Len(ran') = n + 1 /\ ran'[n+1] = V /\ 1..n+1 = 1..n \cup {n+1}
      BY <1>5, <1>10, <2>4
    <3> QED
      BY <1>10, <2>1, <2>3, <2>4, <3>1
  <2>5. CASE ~ Acts(h, packet)
    BY <1>5, <1>10, <2>1, <2>3, <2>5
  <2> QED
    BY <2>4, <2>5
<1>12. place' = IF Claims(h, packet) THEN Len(c) + 1 ELSE place + 1
  BY <1>1 DEF h, c
<1>13. TypeOK'
  <2>1. paired' \subseteq Sources
    BY <1>0, <1>1, <1>4 DEF TypeOK, Packets, Packet
  <2>2. place' \in 1..(Len(c) + 1)
    BY <1>2, <1>12
  <2> QED
    BY <1>0, <1>1, <1>10, <2>1, <2>2 DEF TypeOK, c
<1>14. ChainsInv'
  BY <1>0, <1>1 DEF ChainsInv
<1>15. \A i \in 1..Len(c) : i < place => ~Claims(c[i], packet)
  BY <1>0, <1>1, <1>2 DEF WalkInv, c
<1>16. WalkInv'
  <2>1. place' <= Len(c) => \A i \in 1..Len(c) : i < place' => ~Claims(c[i], packet)
    <3>1. place' <= Len(c) => ~Claims(h, packet) /\ place' = place + 1
      BY <1>2, <1>12
    <3>2. \A i \in 1..Len(c) : i < place + 1 => i < place \/ c[i] = h
      BY <1>2 DEF h
    <3> QED
      BY <1>15, <3>1, <3>2
  <2>2. packet # NoPacket /\ stage # "idle"
    BY <1>0, <1>1 DEF WalkInv
  <2> QED
    BY <1>0, <1>1, <1>7, <2>1, <2>2 DEF WalkInv, c
\* Which places the call passes.
<1>17. \A k \in Chains : \A i \in Nat :
         Passed(k, i)' <=> Passed(k, i) \/ (k = stage /\ place <= i /\ i < place')
  BY <1>1, <1>2, <1>6, <1>7, <1>12 DEF Passed
<1>18. \A k \in Chains : \A i \in 1..Len(TriggerChain[k]) :
         Passed(k, i)' => Passed(k, i) \/ (k = stage /\ i = place)
  <2> SUFFICES ASSUME NEW k \in Chains, NEW i \in 1..Len(TriggerChain[k]),
                      Passed(k, i)', ~ Passed(k, i)
               PROVE  k = stage /\ i = place
    OBVIOUS
  <2>1. i \in Nat /\ Len(TriggerChain[k]) \in Nat
    BY <1>0, ChainFacts
  <2>2. k = stage /\ place <= i /\ i < place'
    BY <1>17, <2>1
  <2>3. place \in 1..Len(TriggerChain[stage])
    BY <1>2, <2>1, <2>2
  <2>4. h \in Triggers
    BY <1>9, <2>3 DEF h
  <2>5. ~ Claims(h, packet)
    BY <1>8, <2>4, TriggerFacts
  <2> QED
    BY <1>2, <1>12, <2>1, <2>2, <2>5
<1>19. \A k, i : k = stage /\ i = place => ~ Passed(k, i) /\ Passed(k, i)'
  BY <1>2, <1>12, <1>17 DEF Passed
<1>20. RanInv'
  <2>1. ASSUME NEW v \in ToSet(ran) PROVE Before(v, V)
    <3>1. Passed(v.chain, v.place)
      BY <1>0 DEF RanInv
    <3>2. V.chain = stage /\ V.place = place
      BY <1>5
    <3>3. /\ v.chain = "unknown" \/ (v.chain = ChainOf(packet) /\ reached)
          /\ stage = v.chain => v.place < place
      BY <3>1 DEF Passed
    <3>4. CASE v.chain = stage
      BY <3>2, <3>3, <3>4 DEF Before
    <3>5. CASE v.chain # stage
      BY <1>6, <1>7, <3>2, <3>3, <3>5 DEF Before
    <3> QED
      BY <3>4, <3>5
  <2>2. \A j \in 1..n : Before(ran[j], V)
    BY <1>0, <2>1, ChainFacts DEF Ran, n
  <2>3. \A i, j \in 1..n : i < j => Before(ran[i], ran[j])
    BY <1>0 DEF RanInv, n
  <2>4. \A i, j \in 1..Len(ran') : i < j => Before(ran'[i], ran'[j])
    <3> SUFFICES ASSUME NEW i \in 1..Len(ran'), NEW j \in 1..Len(ran'), i < j
                 PROVE  Before(ran'[i], ran'[j])
      OBVIOUS
    <3>1. i \in 1..n /\ (j \in 1..n \/ (j = n + 1 /\ Len(ran') = n + 1))
      BY <1>5, <1>10
    <3>2. ran'[i] = ran[i]
      BY <1>10, <3>1
    <3>3. CASE j \in 1..n
      BY <1>10, <2>3, <3>1, <3>2, <3>3
    <3>4. CASE j = n + 1 /\ Len(ran') = n + 1
      BY <1>10, <2>2, <3>1, <3>2, <3>4
    <3> QED
      BY <3>1, <3>3, <3>4
  <2>5. ASSUME NEW v, Ran(v)'
        PROVE  /\ v.place \in 1..Len(chain[v.chain]) /\ chain[v.chain][v.place] = v.handler
               /\ Passed(v.chain, v.place)' /\ Acts(v.handler, packet)
    <3>1. CASE Ran(v)
      <4>1. /\ v.place \in 1..Len(chain[v.chain]) /\ chain[v.chain][v.place] = v.handler
            /\ Passed(v.chain, v.place) /\ Acts(v.handler, packet)
        BY <1>0, <3>1 DEF RanInv, Ran
      <4>2. v.chain \in Chains /\ v.place \in Nat
        BY <1>0, <3>1, ChainFacts, VisitFacts
      <4> QED
        BY <1>17, <4>1, <4>2
    <3>2. CASE v = V /\ Acts(h, packet)
      <4>1. v.chain = stage /\ v.place = place /\ v.handler = h
        BY <1>5, <3>2
      <4> QED
        BY <1>2, <1>19, <3>2, <4>1 DEF c, h
    <3> QED
      BY <1>11, <2>5, <3>1, <3>2
  <2>6. ASSUME NEW k \in Chains, NEW i \in 1..Len(TriggerChain[k]),
               Passed(k, i)', Asks(TriggerChain[k][i])
        PROVE  Ran(Visit(TriggerChain[k][i], k, i))'
    <3>1. CASE Passed(k, i)
      BY <1>0, <1>11, <2>6, <3>1 DEF RanInv
    <3>2. CASE k = stage /\ i = place
      <4>1. h = TriggerChain[k][i] /\ h \in Triggers
        BY <1>9, <3>2 DEF h
      <4>2. Acts(h, packet)
        BY <2>6, <4>1, TriggerFacts
      <4> QED
        BY <1>11, <3>2, <4>1, <4>2 DEF V
    <3> QED
      BY <1>18, <2>6, <3>1, <3>2
  <2> QED
    BY <1>1, <2>4, <2>5, <2>6 DEF RanInv, Ran, Acts, Asks
<1>21. TransportInv'
  <2> SUFFICES ASSUME NEW k \in {"received", "broadcasted"}, NEW t \in 1..Len(chain[k]),
                      chain[k][t] = "transport", Passed(k, t)', packet.text # <<>>
               PROVE  Ran(Visit("transport", k, t))' <=> ~ Kept(k, t)
    BY <1>1 DEF TransportInv, Kept
  <2>1. k \in Chains /\ t \in Nat
    BY <1>2 DEF Chains
  <2> DEFINE T == Visit("transport", k, t)
  <2>2. T.chain = k /\ T.place = t /\ T.handler = "transport"
    BY VisitFacts
  <2> HIDE DEF T
  <2>3. CASE Passed(k, t)
    <3>1. T # V
      BY <1>5, <1>19, <2>2, <2>3
    <3>2. Ran(T)' <=> Ran(T)
      BY <1>11, <3>1
    <3>3. Ran(T) <=> ~ Kept(k, t)
      BY <1>0, <2>3 DEF TransportInv, T
    <3> QED
      BY <3>2, <3>3 DEF T
  <2>4. CASE ~ Passed(k, t)
    <3>1. k = stage /\ place <= t /\ t < place'
      BY <1>17, <2>1, <2>4
    <3>2. ~ Ran(T)
      BY <1>0, <2>2, <2>4 DEF RanInv, Ran
    <3>3. CASE Claims(h, packet)
      <4>1. place < t /\ c[place] = "controller" /\ Valid(packet.text)
        BY <1>2, <1>8, <2>1, <3>1, <3>3 DEF c, h
      <4>2. Kept(k, t)
        BY <1>2, <3>1, <4>1 DEF Kept, c
      <4>3. ~ Ran(T)'
        BY <1>8, <1>11, <3>2, <3>3
      <4> QED
        BY <4>2, <4>3 DEF T
    <3>4. CASE ~ Claims(h, packet)
      <4>1. t = place /\ h = "transport"
        BY <1>2, <1>12, <2>1, <3>1, <3>4 DEF c, h
      <4>2. Ran(T)'
        BY <1>11, <3>1, <4>1, TriggerFacts DEF V, T
      <4>3. ~ Kept(k, t)
        BY <1>15, <3>1, <4>1 DEF Kept, Claims, c
      <4> QED
        BY <4>2, <4>3 DEF T
    <3> QED
      BY <3>3, <3>4
  <2> QED
    BY <2>3, <2>4
<1> QED
  BY <1>13, <1>14, <1>16, <1>20, <1>21 DEF DispatchInv

\* The invariant is inductive.
LEMMA DispatchStep == DispatchInv /\ [Next]_dvars => DispatchInv'
<1> SUFFICES ASSUME DispatchInv, [Next]_dvars PROVE DispatchInv'
  OBVIOUS
<1>1. CASE TransportSetup
  BY <1>1, RegistrationKeeps DEF TransportSetup
<1>2. CASE RegisterController
  BY <1>2, RegistrationKeeps DEF RegisterController
<1>3. CASE \E p \in Packets : Take(p)
  BY <1>3, TakeKeeps
<1>4. CASE Call
  BY <1>4, CallKeeps
<1>5. CASE UnknownDone \/ Done
  BY <1>5, WalkEnds
<1>6. CASE UNCHANGED dvars
  <2>1. /\ UNCHANGED <<chain, paired, stage, place, packet, ran, unknown, reached>>
        /\ TypeOK /\ ChainsInv /\ WalkInv
    BY <1>6 DEF dvars, walk, story, DispatchInv
  <2>2. RanInv' /\ TransportInv'
    BY <2>1, NothingPassed DEF Passed
  <2>3. TypeOK'
    BY <2>1 DEF TypeOK
  <2>4. ChainsInv'
    BY <2>1 DEF ChainsInv
  <2>5. WalkInv'
    BY <2>1 DEF WalkInv
  <2> QED
    BY <2>2, <2>3, <2>4, <2>5 DEF DispatchInv
<1> QED
  BY <1>1, <1>2, <1>3, <1>4, <1>5, <1>6 DEF Next

\* Every reachable state satisfies the invariant.
LEMMA DispatchInvariant == Spec => []DispatchInv
BY DispatchInit, DispatchStep, PTL DEF Spec

-----------------------------------------------------------------------------
(* The theorems.                                                            *)

\* Every variable keeps its type, and no walk goes past the end of its chain,
\* however the chains grow between two packets.
THEOREM DispatchTypeCorrect == Spec => []TypeOK
BY DispatchInvariant, PTL DEF DispatchInv

\* The triggers that ask for the packet are in the history, and no other trigger.
LEMMA AutomationsFromInv == DispatchInv => AutomationsSeeAll
<1> SUFFICES ASSUME DispatchInv, stage = "idle", packet # NoPacket PROVE
      /\ unknown \/ reached
      /\ \A i, j \in DOMAIN ran : i < j => Before(ran[i], ran[j])
      /\ {v \in ToSet(ran) : v.handler \in Triggers} =
           (IF unknown THEN Wanted("unknown") ELSE {})
             \cup (IF reached THEN Wanted(ChainOf(packet)) ELSE {})
  BY DEF AutomationsSeeAll
<1>0. TypeOK /\ ChainsInv /\ WalkInv /\ RanInv
  BY DEF DispatchInv
<1>1. unknown \/ reached
  BY <1>0 DEF WalkInv
<1>2. \A i, j \in DOMAIN ran : i < j => Before(ran[i], ran[j])
  BY <1>0, ChainFacts DEF RanInv
<1>3. \A k, i : Passed(k, i) <=> (k = "unknown" /\ unknown) \/ (k = ChainOf(packet) /\ reached)
  BY ChainOfFacts DEF Passed
<1> DEFINE all == (IF unknown THEN Wanted("unknown") ELSE {})
                    \cup (IF reached THEN Wanted(ChainOf(packet)) ELSE {})
<1>4. \A v : v \in all <=>
        \E k \in Chains : /\ (k = "unknown" /\ unknown) \/ (k = ChainOf(packet) /\ reached)
                          /\ v \in Wanted(k)
  BY ChainOfFacts DEF Chains
<1>5. ASSUME NEW v \in ToSet(ran), v.handler \in Triggers PROVE v \in all
  <2> DEFINE k == v.chain
             i == v.place
  <2>1. /\ v \in Visits /\ k \in Chains /\ i \in Nat /\ v = Visit(v.handler, k, i)
    BY <1>0, ChainFacts, VisitFacts DEF Ran
  <2>2. /\ i \in 1..Len(chain[k]) /\ chain[k][i] = v.handler
        /\ Passed(k, i) /\ Acts(v.handler, packet)
    BY <1>0 DEF RanInv
  <2>3. v.handler \notin {"transport", "controller"} /\ Asks(v.handler)
    BY <1>5, <2>2, TriggerFacts
  <2>4. i \in 1..Len(TriggerChain[k]) /\ TriggerChain[k][i] = v.handler
    <3>1. Len(TriggerChain[k]) \in Nat /\ ~ (i > Len(TriggerChain[k]))
      BY <1>0, <2>1, <2>2, <2>3, ChainFacts DEF ChainsInv
    <3>2. i \in 1..Len(TriggerChain[k])
      BY <2>1, <2>2, <3>1
    <3> QED
      BY <1>0, <2>1, <2>2, <3>2 DEF ChainsInv
  <2> HIDE DEF k, i
  <2>5. DOMAIN TriggerChain[k] = 1..Len(TriggerChain[k])
    BY <1>0, <2>1, ChainFacts
  <2>6. v \in Wanted(k)
    BY <2>1, <2>3, <2>4, <2>5 DEF Wanted
  <2> HIDE DEF all
  <2> QED
    BY <1>3, <1>4, <2>1, <2>2, <2>6
<1>6. ASSUME NEW v \in all PROVE v \in ToSet(ran) /\ v.handler \in Triggers
  <2>1. PICK k \in Chains : /\ (k = "unknown" /\ unknown) \/ (k = ChainOf(packet) /\ reached)
                            /\ v \in Wanted(k)
    BY <1>4, <1>6
  <2>2. PICK i \in DOMAIN TriggerChain[k] :
          Asks(TriggerChain[k][i]) /\ v = Visit(TriggerChain[k][i], k, i)
    BY <2>1 DEF Wanted
  <2>3. i \in 1..Len(TriggerChain[k]) /\ TriggerChain[k][i] \in Triggers
    BY <1>0, <2>2, ChainFacts
  <2>4. Ran(v)
    BY <1>0, <1>3, <2>1, <2>2, <2>3 DEF RanInv
  <2> QED
    BY <2>2, <2>3, <2>4, VisitFacts DEF Ran
<1>7. {v \in ToSet(ran) : v.handler \in Triggers} = all
  <2> HIDE DEF all
  <2> QED
    BY <1>5, <1>6
<1> QED
  BY <1>1, <1>2, <1>7

\* No controller can keep a packet from an automation: when a packet has been
\* handled, the automations that ask for it have run, once each and in order.
THEOREM DispatchAutomationsSeeAll == Spec => []AutomationsSeeAll
BY DispatchInvariant, AutomationsFromInv, PTL

\* The transport's one visit is in the history once, or was kept from it.
LEMMA TransportFromInv == DispatchInv => TransportSees
<1> DEFINE K == ChainOf(packet)
           handlers == chain[K]
           behind == \E i, j \in DOMAIN handlers :
                       i < j /\ handlers[i] = "controller" /\ handlers[j] = "transport"
           runs == {i \in DOMAIN ran : ran[i].handler = "transport"}
<1> SUFFICES ASSUME DispatchInv, stage = "idle", reached,
                    packet.text # <<>>, "transport" \in ToSet(handlers)
             PROVE  IF Valid(packet.text) /\ behind
                    THEN runs = {} ELSE \E i \in DOMAIN ran : runs = {i}
  BY DEF TransportSees
<1>0. TypeOK /\ ChainsInv /\ RanInv /\ TransportInv
  BY DEF DispatchInv
<1>1. K \in {"received", "broadcasted"} /\ K \in Chains /\ K # "unknown"
  BY ChainOfFacts DEF Chains
<1>2. DOMAIN handlers = 1..Len(handlers) /\ Len(handlers) \in Nat
  BY <1>0, <1>1, LenProperties DEF TypeOK
<1>3. DOMAIN ran = 1..Len(ran) /\ Len(ran) \in Nat
  BY <1>0, ChainFacts
<1>4. PICK t \in 1..Len(handlers) : handlers[t] = "transport"
  BY <1>2 DEF ToSet
<1>5. \A i \in 1..Len(handlers) : handlers[i] = "transport" => i = t
  BY <1>0, <1>1, <1>4 DEF ChainsInv
<1> DEFINE T == Visit("transport", K, t)
<1>6. Passed(K, t)
  BY <1>1 DEF Passed
<1>7. Ran(T) <=> ~ Kept(K, t)
  BY <1>0, <1>1, <1>4, <1>6 DEF TransportInv
<1>8. Kept(K, t) <=> Valid(packet.text) /\ behind
  BY <1>2, <1>4, <1>5 DEF Kept
<1> HIDE DEF behind
<1>9. T.chain = K /\ T.place = t /\ T.handler = "transport"
  BY VisitFacts
<1>10. ASSUME NEW j \in DOMAIN ran PROVE j \in runs <=> ran[j] = T
  <2>1. ASSUME ran[j].handler = "transport" PROVE ran[j] = T
    <3> DEFINE v == ran[j]
    <3>1. Ran(v) /\ v.chain \in Chains /\ v = Visit(v.handler, v.chain, v.place)
      BY <1>0, <1>3, ChainFacts, VisitFacts
    <3>2. /\ v.place \in 1..Len(chain[v.chain]) /\ chain[v.chain][v.place] = "transport"
          /\ Passed(v.chain, v.place)
      BY <1>0, <2>1, <3>1 DEF RanInv, Ran
    <3>3. v.chain # "unknown"
      <4>1. chain["unknown"] = TriggerChain["unknown"] /\ "unknown" \in Chains
        BY <1>0 DEF ChainsInv, Chains
      <4>2. \A i \in 1..Len(chain["unknown"]) : chain["unknown"][i] # "transport"
        BY <1>0, <4>1, ChainFacts, TriggerFacts
      <4> QED
        BY <3>2, <4>2
    <3>4. v.chain = K
      BY <3>2, <3>3 DEF Passed
    <3>5. v.place = t
      BY <1>5, <3>2, <3>4
    <3> QED
      BY <2>1, <3>1, <3>4, <3>5
  <2> QED
    BY <1>9, <2>1
<1>11. \A i, j \in DOMAIN ran : ran[i] = T /\ ran[j] = T => i = j
  <2>1. ~ Before(T, T)
    BY <1>1, <1>2, <1>4, <1>9 DEF Before
  <2> HIDE DEF T
  <2>2. \A i, j \in 1..Len(ran) : i < j => Before(ran[i], ran[j])
    BY <1>0 DEF RanInv
  <2>3. ASSUME NEW i \in 1..Len(ran), NEW j \in 1..Len(ran), ran[i] = T, ran[j] = T
        PROVE  i = j
    <3>1. ~ (i < j) /\ ~ (j < i)
      BY <2>1, <2>2, <2>3, Zenon
    <3> QED
      BY <1>3, <3>1
  <2> QED
    BY <1>3, <2>3
<1>12. Ran(T) <=> \E j \in DOMAIN ran : ran[j] = T
  BY <1>0, <1>3, ChainFacts
<1> HIDE DEF T
<1>13. runs \subseteq DOMAIN ran
  OBVIOUS
<1> HIDE DEF runs, K
<1> QED
  BY <1>7, <1>8, <1>10, <1>11, <1>12, <1>13

\* The transport processes every packet of at least a byte that reaches its chain
\* once, unless it is one for a controller that was registered first.
THEOREM DispatchTransportSees == Spec => []TransportSees
BY DispatchInvariant, TransportFromInv, PTL
=============================================================================
