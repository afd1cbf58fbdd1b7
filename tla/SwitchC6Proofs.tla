---------------------------- MODULE SwitchC6Proofs ----------------------------
(***************************************************************************)
(* Theorems about the clients of one ESP-NOW component, for any number of   *)
(* switches on any channels, every pool and every configuration.            *)
(***************************************************************************)
EXTENDS SwitchC6, SequenceTheorems, TLAPS

Texts == Commands \cup {"on", "off", "custom", "data"}
Channels == RadioChannels \cup {0}

\* A peer of the driver's is one of the component's list.
ListedInv == paired \subseteq peers

\* A frame that waits and names a channel the driver accepts names the radio's,
\* unless the radio was moved meanwhile, or is off.
QueuedOnChannel ==
    \A i \in DOMAIN txQueue :
      \/ txQueue[i].ch = 0 \/ txQueue[i].moved \/ txQueue[i].ch \notin Tunable
      \/ radio = 0 \/ txQueue[i].ch = radio

\* The inductive invariant.
C6Inv == TypeOK /\ ListedInv /\ QueuedOnChannel /\ FramesOnTheirChannel /\ NewestSays

-----------------------------------------------------------------------------
(* What the operators on the queue do.                                      *)

\* A frame has the fields it is built from, and nothing has overtaken it.
LEMMA FrameFacts ==
    ASSUME NEW by \in Users \cup {"transport"}, NEW dst \in AnyPeer,
           NEW cmd \in Texts, NEW ch \in Channels
    PROVE  LET f == Frame(by, dst, cmd, ch)
           IN f \in Frames /\ f.by = by /\ f.dst = dst /\ f.cmd = cmd /\ f.ch = ch
BY DEF Frame, Frames, Texts, Channels

\* A queue of the length of txQueue with the same senders, commands and channels.
SameFrames(q) ==
    /\ q \in Seq(Frames) /\ Len(q) = Len(txQueue)
    /\ \A i \in 1..Len(txQueue) :
         q[i].by = txQueue[i].by /\ q[i].cmd = txQueue[i].cmd /\ q[i].ch = txQueue[i].ch

\* The frames of a queue that name another channel than c, which the driver
\* accepts, were overtaken.
OnChannel(q, c) ==
    \A i \in 1..Len(q) :
      q[i].ch = 0 \/ q[i].moved \/ q[i].ch \notin Tunable \/ c = 0 \/ q[i].ch = c

\* A move of the radio changes nothing of the frames that wait but that the move
\* has overtaken those that name a channel.
LEMMA OvertakenFrames ==
    ASSUME TypeOK, QueuedOnChannel, NEW ch \in Channels
    PROVE  SameFrames(Overtaken(ch)) /\ OnChannel(Overtaken(ch), ch)
<1>0. txQueue \in Seq(Frames) /\ Len(txQueue) \in Nat /\ DOMAIN txQueue = 1..Len(txQueue)
  BY LenProperties DEF TypeOK
<1>1. CASE ch = radio
  BY <1>0, <1>1 DEF Overtaken, SameFrames, OnChannel, QueuedOnChannel
<1>2. CASE ch # radio
  <2> DEFINE b(i) == txQueue[i].ch # 0
             f(i) == [txQueue[i] EXCEPT !.moved = b(i)]
  <2>0. Overtaken(ch) = [i \in 1..Len(txQueue) |-> f(i)]
    BY <1>0, <1>2 DEF Overtaken
  <2>1. \A i \in 1..Len(txQueue) :
          /\ txQueue[i] \in Frames /\ b(i) \in BOOLEAN
          /\ txQueue[i].ch = 0 \/ b(i)
    BY <1>0, ElementOfSeq
  <2> HIDE DEF b
  <2>2. \A i \in 1..Len(txQueue) :
          /\ f(i) \in Frames
          /\ f(i).by = txQueue[i].by /\ f(i).cmd = txQueue[i].cmd
          /\ f(i).ch = txQueue[i].ch /\ f(i).moved = b(i)
    BY <2>1 DEF Frames
  <2> HIDE DEF f
  <2>3. Overtaken(ch) \in Seq(Frames) /\ Len(Overtaken(ch)) = Len(txQueue)
    BY <1>0, <2>0, <2>2, IsASeq
  <2> QED
    BY <2>0, <2>1, <2>2, <2>3 DEF SameFrames, OnChannel
<1> QED
  BY <1>1, <1>2

\* The channel apply_wifi_channel() leaves the radio on is a channel, or it is off.
LEMMA TunedChannel ==
    ASSUME NEW st, NEW from \in Channels, NEW ch
    PROVE  Tuned(st, from, ch) \in Channels
BY SwitchAssumption DEF Tuned, Channels

\* The newest frames still say what is published when the queue has the same
\* frames, and the switches that were not refused the same state.
LEMMA NewestKept ==
    ASSUME TypeOK, NewestSays, SameFrames(txQueue'),
           \A s \in Switches \ refused' :
             s \notin refused /\ published'[s] = published[s]
    PROVE  NewestSays'
<1>1. /\ DOMAIN txQueue = 1..Len(txQueue) /\ DOMAIN txQueue' = 1..Len(txQueue)
  BY LenProperties DEF TypeOK, SameFrames
<1> QED
  BY <1>1 DEF NewestSays, NewestIs, SameFrames

\* They do when a frame is added that says what its switch publishes.
LEMMA NewestAppended ==
    ASSUME TypeOK, NewestSays, NEW q, SameFrames(q), NEW f \in Frames,
           txQueue' = Append(q, f),
           \A s \in Switches \ refused' :
             IF s = f.by THEN published'[s] = f.cmd
             ELSE s \notin refused /\ published'[s] = published[s]
    PROVE  NewestSays'
<1>1. /\ DOMAIN txQueue = 1..Len(txQueue) /\ Len(txQueue) \in Nat
      /\ DOMAIN txQueue' = 1..Len(txQueue)+1
      /\ txQueue'[Len(txQueue)+1] = f
      /\ \A i \in 1..Len(txQueue) :
           txQueue'[i].by = txQueue[i].by /\ txQueue'[i].cmd = txQueue[i].cmd
  BY LenProperties, AppendProperties DEF TypeOK, SameFrames
<1>2. ASSUME NEW s \in Switches \ refused', NEW i \in DOMAIN txQueue', NewestIs(s, i)'
      PROVE  txQueue'[i].cmd = published'[s]
  <2>1. CASE i = Len(txQueue) + 1
    BY <1>1, <1>2, <2>1 DEF NewestIs
  <2>2. CASE i \in 1..Len(txQueue)
    <3>1. f.by # s
      BY <1>1, <1>2, <2>2 DEF NewestIs
    <3>2. NewestIs(s, i)
      BY <1>1, <1>2, <2>2 DEF NewestIs
    <3> QED
      BY <1>1, <2>2, <3>1, <3>2 DEF NewestSays
  <2> QED
    BY <1>1, <2>1, <2>2
<1> QED
  BY <1>2 DEF NewestSays

\* And when the first frame leaves the queue.
LEMMA NewestTail ==
    ASSUME TypeOK, NewestSays, txQueue # <<>>, txQueue' = Tail(txQueue),
           UNCHANGED <<published, refused>>
    PROVE  NewestSays'
<1>1. /\ DOMAIN txQueue = 1..Len(txQueue) /\ Len(txQueue) \in Nat
      /\ DOMAIN txQueue' = 1..Len(txQueue)-1
      /\ \A i \in 1..Len(txQueue)-1 : txQueue'[i] = txQueue[i+1]
  BY LenProperties, HeadTailProperties DEF TypeOK
<1>2. ASSUME NEW s \in Switches \ refused, NEW i \in DOMAIN txQueue', NewestIs(s, i)'
      PROVE  txQueue'[i].cmd = published[s]
  <2>1. ASSUME NEW j \in DOMAIN txQueue, j > i+1 PROVE txQueue[j].by # s
    <3>1. j-1 \in DOMAIN txQueue' /\ j-1 > i /\ txQueue'[j-1] = txQueue[j]
      BY <1>1, <1>2, <2>1
    <3> QED
      BY <1>2, <3>1 DEF NewestIs
  <2>2. i+1 \in DOMAIN txQueue /\ NewestIs(s, i+1)
    BY <1>1, <1>2, <2>1 DEF NewestIs
  <2> QED
    BY <1>1, <1>2, <2>2 DEF NewestSays
<1> QED
  BY <1>2 DEF NewestSays

-----------------------------------------------------------------------------
(* The clients.                                                             *)

\* What stays of the invariant when the channel and the queue's waiting frames
\* have moved on, but nothing was queued.
LEMMA Moved ==
    ASSUME C6Inv, NEW ch \in Channels, radio' = ch, txQueue' = Overtaken(ch),
           UNCHANGED <<onAir, current, leaked, published, refused>>
    PROVE  /\ QueuedOnChannel' /\ FramesOnTheirChannel' /\ NewestSays'
           /\ txQueue' \in Seq(Frames) /\ Taken' = Taken
<1>1. SameFrames(txQueue') /\ OnChannel(txQueue', radio')
  BY OvertakenFrames DEF C6Inv
<1>2. DOMAIN txQueue' = 1..Len(txQueue')
  BY <1>1, LenProperties DEF SameFrames
<1>3. NewestSays'
  BY <1>1, NewestKept DEF C6Inv
<1>4. FramesOnTheirChannel'
  BY DEF C6Inv, FramesOnTheirChannel, None
<1> QED
  BY <1>1, <1>2, <1>3, <1>4 DEF QueuedOnChannel, OnChannel, SameFrames, Taken

\* No more packets are taken than the pool has when a frame is pushed, or its packet
\* lost, while one was free.
LEMMA TakenBound ==
    ASSUME TypeOK, UNCHANGED current,
           NEW q \in Seq(Frames), Len(q) = Len(txQueue), NEW f \in Frames,
           \/ txQueue' = q /\ leaked' = leaked
           \/ txQueue' = q /\ leaked' = leaked + 1 /\ Taken < PoolSize
           \/ txQueue' = Append(q, f) /\ leaked' = leaked /\ Taken < PoolSize
    PROVE  txQueue' \in Seq(Frames) /\ leaked' \in Nat /\ Taken' <= PoolSize
<1> DEFINE n == IF current = None THEN 0 ELSE 1
<1>1. /\ n \in Nat /\ Taken = Len(txQueue) + leaked + n
      /\ Taken' = Len(txQueue') + leaked' + n
  BY DEF Taken
<1>2. /\ Taken <= PoolSize /\ PoolSize \in Nat /\ leaked \in Nat /\ Len(txQueue) \in Nat
  BY SwitchAssumption, LenProperties DEF TypeOK
<1>3. Append(q, f) \in Seq(Frames) /\ Len(Append(q, f)) = Len(txQueue) + 1
  BY AppendProperties
<1> HIDE DEF n
<1>4. CASE txQueue' = q /\ leaked' = leaked
  BY <1>1, <1>2, <1>4
<1>5. CASE txQueue' = q /\ leaked' = leaked + 1 /\ Taken < PoolSize
  BY <1>1, <1>2, <1>5
<1>6. CASE txQueue' = Append(q, f) /\ leaked' = leaked /\ Taken < PoolSize
  BY <1>1, <1>2, <1>3, <1>6
<1> QED
  BY <1>4, <1>5, <1>6

\* The clients' call of send(): what it does to the peers; and a frame is queued
\* only in a component that is enabled and has not failed, to a peer the driver
\* has and the component lists, and while the pool has a packet.
LEMMA TransmitFacts ==
    ASSUME TypeOK, ListedInv, NEW by \in Users, NEW cmd \in Texts, NEW ch \in Channels,
           NEW fails \in BOOLEAN, NEW stops \in BOOLEAN, NEW q, SameFrames(q),
           Transmit(by, cmd, ch, fails, stops, q)
    PROVE  /\ paired' \subseteq AnyPeer /\ peers' \subseteq AnyPeer /\ cached' \subseteq Users
           /\ ListedInv'
           /\ \/ /\ txQueue' = q /\ leaked' = leaked
                 /\ by \in Switches => refused' = refused \cup {by}
              \/ /\ txQueue' = q /\ leaked' = leaked + 1 /\ Taken < PoolSize
                 /\ by \in Switches => refused' = refused \cup {by}
              \/ /\ txQueue' = Append(q, Frame(by, Broadcast, cmd, ch)) /\ leaked' = leaked
                 /\ state = "ENABLED" /\ ~fails /\ Taken < PoolSize
                 /\ Broadcast \in paired' \cap peers'
                 /\ by \in Switches => refused' = refused \ {by}
           /\ by \in Switches => published' = [published EXCEPT ![by] = cmd]
           /\ by \notin Switches => UNCHANGED switchVars
<1> DEFINE usable == state = "ENABLED" /\ ~fails
           ensured(known) == by \in cached \/ (usable /\ Broadcast \in known)
           sends(known) == ensured(known) \/ ~stops
           accepted(known, after) == sends(known) /\ Accepts(by, Broadcast, fails, after)
           listed(known, after) ==
             usable /\ ((by \notin cached /\ Broadcast \in known) \/ after # known)
<1>1. PICK known \in IF by \in cached THEN {paired} ELSE PairedByAdd(Broadcast, fails, paired) :
        \E after \in IF sends(known) THEN PairedBySend(Broadcast, fails, known) ELSE {known} :
          /\ cached' = IF ensured(known) THEN cached \cup {by} ELSE cached
          /\ paired' = after
          /\ peers' = IF listed(known, after) THEN peers \cup {Broadcast} ELSE peers
          /\ IF accepted(known, after) THEN Push(q, Frame(by, Broadcast, cmd, ch))
             ELSE txQueue' = q /\ UNCHANGED leaked
          /\ IF by \in Switches
             THEN /\ published' = [published EXCEPT ![by] = cmd]
                  /\ refused' = IF accepted(known, after) /\ Len(q) < QueueCap
                                THEN refused \ {by} ELSE refused \cup {by}
             ELSE UNCHANGED switchVars
  BY Zenon DEF Transmit
<1>2. PICK after \in IF sends(known) THEN PairedBySend(Broadcast, fails, known) ELSE {known} :
        /\ cached' = IF ensured(known) THEN cached \cup {by} ELSE cached
        /\ paired' = after
        /\ peers' = IF listed(known, after) THEN peers \cup {Broadcast} ELSE peers
        /\ IF accepted(known, after) THEN Push(q, Frame(by, Broadcast, cmd, ch))
           ELSE txQueue' = q /\ UNCHANGED leaked
        /\ IF by \in Switches
           THEN /\ published' = [published EXCEPT ![by] = cmd]
                /\ refused' = IF accepted(known, after) /\ Len(q) < QueueCap
                              THEN refused \ {by} ELSE refused \cup {by}
           ELSE UNCHANGED switchVars
  BY <1>1
<1>3. /\ known = paired \/ (known = paired \cup {Broadcast} /\ usable /\ by \notin cached)
      /\ after = known \/ (after = known \cup {Broadcast} /\ usable)
  BY DEF PairedByAdd, PairedBySend
<1>4. paired' \subseteq paired \cup {Broadcast}
  BY <1>2, <1>3
<1>5. paired' \subseteq peers'
  <2>1. paired \subseteq peers
    BY DEF ListedInv
  <2>2. CASE after = paired
    BY <1>2, <2>1, <2>2
  <2>3. CASE after # paired
    <3>1. listed(known, after) /\ after \subseteq paired \cup {Broadcast}
      BY <1>3, <2>3
    <3> QED
      BY <1>2, <2>1, <3>1
  <2> QED
    BY <2>2, <2>3
<1>6. accepted(known, after) => usable /\ Broadcast \in paired' /\ Taken < PoolSize
  BY <1>2 DEF Accepts
<1> DEFINE acc == accepted(known, after)
           room == Len(q) < QueueCap
           f == Frame(by, Broadcast, cmd, ch)
<1>7. /\ cached' = IF ensured(known) THEN cached \cup {by} ELSE cached
      /\ peers' \subseteq peers \cup {Broadcast}
  BY <1>2
<1>8. /\ acc /\ room => txQueue' = Append(q, f) /\ leaked' = leaked
      /\ acc /\ ~room => txQueue' = q /\ leaked' = leaked + 1
      /\ ~acc => txQueue' = q /\ leaked' = leaked
  BY <1>2 DEF Push, Enqueue
<1>9. IF by \in Switches
      THEN /\ published' = [published EXCEPT ![by] = cmd]
           /\ refused' = IF acc /\ room THEN refused \ {by} ELSE refused \cup {by}
      ELSE UNCHANGED switchVars
  BY <1>2
<1> HIDE DEF ensured, sends, accepted, listed, acc, room, f
<1>10. paired' \subseteq AnyPeer /\ peers' \subseteq AnyPeer /\ cached' \subseteq Users
  BY <1>4, <1>7 DEF TypeOK, AnyPeer
<1>11. acc => usable /\ Broadcast \in paired' \cap peers' /\ Taken < PoolSize
  BY <1>5, <1>6 DEF acc
<1>12. CASE acc /\ room
  BY <1>5, <1>8, <1>9, <1>10, <1>11, <1>12 DEF ListedInv, f
<1>13. CASE acc /\ ~room
  BY <1>5, <1>8, <1>9, <1>10, <1>11, <1>13 DEF ListedInv
<1>14. CASE ~acc
  BY <1>5, <1>8, <1>9, <1>10, <1>14 DEF ListedInv
<1> QED
  BY <1>12, <1>13, <1>14

\* The types of what the clients' calls leave alone.
Rest ==
    /\ pc \in {"boot", "idle", "drain", "unknown", "handler", "aborted"}
    /\ inHand \in IF pc = "unknown" THEN Sources ELSE {"none"}
    /\ state \in {"OFF", "ENABLED", "DISABLED"} /\ failed \in BOOLEAN
    /\ driver \in BOOLEAN /\ wifi \in BOOLEAN
    /\ wifiChannel \in Byte
    /\ rxQueue \in Seq(Sources \cup {"report"})

\* A client sends: the frame names the channel the radio is on, if the component
\* takes it at all and the radio is not off.
LEMMA ClientStep ==
    ASSUME C6Inv, Rest', NEW by \in Users, NEW cmd \in Texts, NEW ch \in Channels,
           NEW fails \in BOOLEAN, NEW stops \in BOOLEAN, NEW c \in Channels,
           radio' = c, Transmit(by, cmd, ch, fails, stops, Overtaken(c)),
           ~fails => ch = 0 \/ ch \notin Tunable \/ c = 0 \/ ch = c,
           by \in Switches => cmd \in {"on", "off"},
           UNCHANGED <<onAir, current>>
    PROVE  C6Inv'
<1> DEFINE q == Overtaken(c)
           f == Frame(by, Broadcast, cmd, ch)
<1>1. SameFrames(q) /\ OnChannel(q, c)
  BY OvertakenFrames DEF C6Inv
<1>2. f \in Frames /\ f.by = by /\ f.cmd = cmd /\ f.ch = ch
  BY FrameFacts DEF AnyPeer
<1>3. TypeOK /\ ListedInv /\ NewestSays /\ QueuedOnChannel
  BY DEF C6Inv
<1>4. /\ paired' \subseteq AnyPeer /\ peers' \subseteq AnyPeer /\ cached' \subseteq Users
      /\ ListedInv'
      /\ \/ /\ txQueue' = q /\ leaked' = leaked
            /\ by \in Switches => refused' = refused \cup {by}
         \/ /\ txQueue' = q /\ leaked' = leaked + 1 /\ Taken < PoolSize
            /\ by \in Switches => refused' = refused \cup {by}
         \/ /\ txQueue' = Append(q, f) /\ leaked' = leaked
            /\ ~fails /\ Taken < PoolSize
            /\ by \in Switches => refused' = refused \ {by}
      /\ by \in Switches => published' = [published EXCEPT ![by] = cmd]
      /\ by \notin Switches => UNCHANGED switchVars
  BY <1>1, <1>3, TransmitFacts
<1> HIDE DEF q, f
<1>5. /\ q \in Seq(Frames) /\ Len(q) = Len(txQueue)
      /\ Append(q, f) \in Seq(Frames) /\ Len(Append(q, f)) = Len(txQueue) + 1
      /\ \A i \in 1..Len(txQueue) : Append(q, f)[i] = q[i]
      /\ Append(q, f)[Len(txQueue) + 1] = f
      /\ Len(txQueue) \in Nat
  BY <1>1, <1>2, <1>3, AppendProperties, LenProperties DEF SameFrames, TypeOK
<1>6. published' \in [Switches -> {"none", "on", "off"}] /\ refused' \subseteq Switches
  BY <1>3, <1>4 DEF TypeOK, switchVars
<1>7. TypeOK'
  <2>1. txQueue' \in Seq(Frames) /\ leaked' \in Nat /\ Taken' <= PoolSize
    BY <1>2, <1>3, <1>4, <1>5, TakenBound
  <2>2. /\ paired' \subseteq AnyPeer /\ peers' \subseteq AnyPeer /\ cached' \subseteq Users
        /\ radio' \in RadioChannels \cup {0}
    BY <1>4 DEF Channels
  <2>3. /\ current' \in Frames \cup {None}
        /\ onAir' \in [frame : Frames, on : RadioChannels] \cup {None}
    BY <1>3 DEF TypeOK
  <2> QED
    BY <1>6, <2>1, <2>2, <2>3 DEF TypeOK, Rest
<1>8. QueuedOnChannel'
  <2>1. CASE txQueue' = q
    BY <1>1, <1>5, <2>1, LenProperties DEF QueuedOnChannel, OnChannel
  <2>2. CASE txQueue' = Append(q, f) /\ ~fails
    <3>1. DOMAIN txQueue' = 1..Len(txQueue)+1
      BY <1>5, <2>2, LenProperties
    <3> QED
      BY <1>1, <1>2, <1>5, <2>2, <3>1 DEF QueuedOnChannel, OnChannel
  <2> QED
    BY <1>4, <2>1, <2>2
<1>9. NewestSays'
  <2>0. \A s \in Switches : s # by =>
          (s \notin refused' => s \notin refused) /\ published'[s] = published[s]
    BY <1>3, <1>4 DEF TypeOK, switchVars
  <2>1. CASE txQueue' = q /\ (by \in Switches => refused' = refused \cup {by})
    BY <1>1, <1>3, <2>0, <2>1, NewestKept
  <2>2. CASE txQueue' = Append(q, f)
    <3>1. by \in Switches => published'[by] = cmd
      BY <1>3, <1>4 DEF TypeOK
    <3> QED
      BY <1>1, <1>2, <1>3, <2>0, <2>2, <3>1, NewestAppended
  <2> QED
    BY <1>4, <2>1, <2>2
<1>10. FramesOnTheirChannel'
  BY DEF C6Inv, FramesOnTheirChannel, None
<1> QED
  BY <1>4, <1>7, <1>8, <1>9, <1>10 DEF C6Inv

-----------------------------------------------------------------------------
(* The steps.                                                               *)

\* At power-on nothing is queued.
LEMMA C6Init == Init => C6Inv
<1> SUFFICES ASSUME Init PROVE C6Inv
  OBVIOUS
<1>1. TypeOK
  <2>1. txQueue \in Seq(Frames) /\ rxQueue \in Seq(Sources \cup {"report"})
    BY DEF Init
  <2>2. Taken <= PoolSize
    BY SwitchAssumption DEF Init, Taken
  <2>3. wifiChannel \in Byte
    BY SwitchAssumption DEF Init, Byte, RadioChannels
  <2>4. wifi \in BOOLEAN
    BY SwitchAssumption, Zenon DEF Init
  <2> QED
    BY <2>1, <2>2, <2>3, <2>4, SwitchAssumption DEF Init, TypeOK
<1>2. DOMAIN txQueue = {}
  BY DEF Init
<1> QED
  BY <1>1, <1>2 DEF Init, C6Inv, ListedInv, QueuedOnChannel, FramesOnTheirChannel, NewestSays

\* Nor after a restart.
LEMMA C6Restart == C6Inv /\ Restart => C6Inv'
<1> SUFFICES ASSUME Restart PROVE C6Inv'
  OBVIOUS
<1>1. TypeOK'
  <2>1. txQueue' \in Seq(Frames) /\ rxQueue' \in Seq(Sources \cup {"report"})
    BY DEF Restart
  <2>2. Taken' <= PoolSize
    BY SwitchAssumption DEF Restart, Taken
  <2>3. wifiChannel' \in Byte
    BY SwitchAssumption DEF Restart, Byte, RadioChannels
  <2>4. wifi' \in BOOLEAN
    BY SwitchAssumption, Zenon DEF Restart
  <2> QED
    BY <2>1, <2>2, <2>3, <2>4, SwitchAssumption DEF Restart, TypeOK
<1>2. DOMAIN txQueue' = {}
  BY DEF Restart
<1> QED
  BY <1>1, <1>2 DEF Restart, C6Inv, ListedInv, QueuedOnChannel, FramesOnTheirChannel, NewestSays

\* Enabling and the channel: the frames that wait may be overtaken.
LEMMA C6Channel ==
    ASSUME C6Inv,
           \/ \E st \in {state, "OFF"}, ok \in BOOLEAN :
                Enable_(st, ok) /\ (pc' = pc \/ (pc = "boot" /\ pc' = "idle"))
           \/ \E ch \in UserChannels : SetWifiChannel(ch)
           \/ WifiChanges
    PROVE  C6Inv'
<1>0. /\ TypeOK /\ ListedInv
      /\ UNCHANGED <<onAir, current, leaked, published, refused, cached, peers, rxQueue, inHand>>
  BY DEF C6Inv, Enable_, SetWifiChannel, WifiChanges, switchVars, peerVars, compVars
<1>1. /\ radio' \in Channels /\ txQueue' = Overtaken(radio')
      /\ wifiChannel' \in Byte
  <2>0. radio \in Channels /\ Channels \subseteq Byte /\ wifiChannel \in Byte
    BY <1>0 DEF TypeOK, Channels, RadioChannels, Byte
  <2>1. ASSUME NEW st, NEW ok \in BOOLEAN, Enable_(st, ok)
        PROVE  radio' \in Channels /\ txQueue' = Overtaken(radio') /\ wifiChannel' \in Byte
    <3> DEFINE on == IF radio = 0 THEN 1 ELSE radio
               ch == IF wifi THEN on ELSE Tuned(st, on, wifiChannel)
    <3>1. radio' = ch /\ wifiChannel' = ch /\ txQueue' = Overtaken(ch)
      BY <2>1 DEF Enable_
    <3>2. on \in Channels
      BY <2>0 DEF Channels, RadioChannels
    <3>3. ch \in Channels
      <4> HIDE DEF on
      <4> QED
        BY <3>2, TunedChannel
    <3> HIDE DEF ch
    <3> QED
      BY <2>0, <3>1, <3>3
  <2>2. ASSUME NEW ch \in UserChannels, SetWifiChannel(ch)
        PROVE  radio' \in Channels /\ txQueue' = Overtaken(radio') /\ wifiChannel' \in Byte
    <3>1. ch \in Byte
      BY SwitchAssumption
    <3> QED
      BY <2>0, <2>2, <3>1, TunedChannel DEF SetWifiChannel
  <2>3. ASSUME WifiChanges
        PROVE  radio' \in Channels /\ txQueue' = Overtaken(radio') /\ wifiChannel' \in Byte
    BY <2>0, <2>3 DEF WifiChanges, Channels
  <2> QED
    BY <2>1, <2>2, <2>3
<1>2. /\ QueuedOnChannel' /\ FramesOnTheirChannel' /\ NewestSays'
      /\ txQueue' \in Seq(Frames) /\ Taken' = Taken
  BY <1>0, <1>1, Moved
<1>3. paired' \subseteq peers' /\ peers' \subseteq AnyPeer
  BY <1>0 DEF Enable_, SetWifiChannel, WifiChanges, peerVars, TypeOK, ListedInv
<1>4. /\ pc' \in {"boot", "idle", "drain", "unknown", "handler", "aborted"}
      /\ pc' = "unknown" <=> pc = "unknown"
      /\ state' \in {"OFF", "ENABLED", "DISABLED"} /\ wifi' \in BOOLEAN
  BY <1>0 DEF Enable_, SetWifiChannel, WifiChanges, compVars, TypeOK
<1>5. failed' \in BOOLEAN /\ driver' \in BOOLEAN
  BY <1>0 DEF Enable_, SetWifiChannel, ChannelFails, WifiChanges, compVars, TypeOK
<1>6. TypeOK'
  BY <1>0, <1>1, <1>2, <1>3, <1>4, <1>5 DEF TypeOK, Channels
<1> QED
  BY <1>2, <1>3, <1>6 DEF C6Inv, ListedInv

\* write_state() tunes the radio to the switch's channel, or marks the component
\* failed; the controller's frames name the channel it reads, and a custom message
\* and the transport's frames none.
LEMMA C6Clients ==
    ASSUME C6Inv,
           \/ \E s \in Switches, on \in {"on", "off"} : WriteState(s, on)
           \/ \E cmd \in Commands : ControllerSend(cmd)
           \/ SendCustomMessage
    PROVE  C6Inv'
<1>0. TypeOK
  BY DEF C6Inv
<1>1. Overtaken(radio) = txQueue
  BY DEF Overtaken
<1>2. ASSUME NEW s \in Switches, NEW on \in {"on", "off"}, WriteState(s, on)
      PROVE  C6Inv'
  <2> DEFINE ch == SwitchChannel[s]
             c == Tuned(state, radio, ch)
             fails == ChannelFails(state)
  <2>1. ch \in RadioChannels /\ s \in Users
    BY SwitchAssumption DEF Users
  <2>2. c \in Channels /\ ch \in Channels /\ ch \in Byte /\ fails \in BOOLEAN
    <3>1. radio \in Channels
      BY <1>0 DEF TypeOK, Channels
    <3>2. fails \in BOOLEAN
      BY <1>0 DEF ChannelFails, TypeOK
    <3> HIDE DEF ch
    <3>3. c \in Channels
      BY <3>1, TunedChannel
    <3>4. ch \in Channels /\ ch \in Byte
      BY <2>1 DEF Channels, RadioChannels, Byte
    <3> QED
      BY <3>2, <3>3, <3>4
  <2>3. ~fails => ch = 0 \/ ch \notin Tunable \/ c = 0 \/ ch = c
    BY DEF ChannelFails, Tuned
  <2>4. Rest'
    BY <1>0, <1>2, <2>2 DEF WriteState, Rest, TypeOK
  <2>5. on \in Texts
    BY DEF Texts
  <2>6. /\ radio' = c /\ Transmit(s, on, ch, fails, FALSE, Overtaken(c))
        /\ UNCHANGED <<onAir, current>>
    BY <1>2 DEF WriteState
  <2> HIDE DEF ch, c, fails
  <2> QED
    BY <2>1, <2>2, <2>3, <2>4, <2>5, <2>6, ClientStep
<1>3. ASSUME NEW cmd \in Commands, ControllerSend(cmd)
      PROVE  C6Inv'
  <2> DEFINE ch == IF wifiChannel' \in RadioChannels THEN wifiChannel' ELSE 1
  <2>1. /\ wifiChannel' = (IF radio = 0 THEN wifiChannel ELSE radio) /\ radio' = radio
        /\ Transmit("controller", cmd, ch, failed, TRUE, Overtaken(radio))
        /\ UNCHANGED <<pc, inHand, state, failed, driver, wifi, onAir, current, rxQueue>>
    BY <1>1, <1>3 DEF ControllerSend, compVars
  <2>2. radio \in Channels /\ ch \in Channels /\ (radio = 0 \/ ch = radio)
    BY <1>0, <2>1 DEF TypeOK, Channels, RadioChannels
  <2>3. Rest'
    BY <1>0, <2>1 DEF Rest, TypeOK, Channels, RadioChannels, Byte
  <2>4. cmd \in Texts /\ "controller" \in Users /\ "controller" \notin Switches
        /\ failed \in BOOLEAN
    BY <1>0, SwitchAssumption DEF Texts, Users, TypeOK
  <2> HIDE DEF ch
  <2> QED
    BY <2>1, <2>2, <2>3, <2>4, ClientStep
<1>4. ASSUME SendCustomMessage
      PROVE  C6Inv'
  <2>1. /\ radio' = radio
        /\ Transmit("controller", "custom", 0, failed, TRUE, Overtaken(radio))
        /\ UNCHANGED <<pc, inHand, state, failed, driver, wifi, wifiChannel, onAir, current,
                       rxQueue>>
    BY <1>1, <1>4 DEF SendCustomMessage, compVars
  <2>2. Rest' /\ radio \in Channels /\ 0 \in Channels
    BY <1>0, <2>1 DEF Rest, TypeOK, Channels
  <2>3. "custom" \in Texts /\ "controller" \in Users /\ "controller" \notin Switches
        /\ failed \in BOOLEAN
    BY <1>0, SwitchAssumption DEF Texts, Users, TypeOK
  <2> QED
    BY <2>1, <2>2, <2>3, ClientStep
<1> QED
  BY <1>2, <1>3, <1>4

\* The transport's frames name no channel.
LEMMA C6Transport == C6Inv /\ TransportSend => C6Inv'
<1> SUFFICES ASSUME C6Inv, TransportSend PROVE C6Inv'
  OBVIOUS
<1> DEFINE f == Frame("transport", PeerAddress, "data", 0)
<1>0. TypeOK /\ ListedInv /\ NewestSays /\ QueuedOnChannel
  BY DEF C6Inv
<1>1. PICK after \in PairedBySend(PeerAddress, failed, paired) :
        /\ paired' = after
        /\ peers' = IF after # paired THEN peers \cup {PeerAddress} ELSE peers
        /\ IF Accepts("transport", PeerAddress, failed, after)
           THEN Push(txQueue, f) ELSE UNCHANGED sendVars
  BY DEF TransportSend
<1>2. /\ UNCHANGED <<pc, inHand, state, failed, driver, wifi, radio, wifiChannel, cached,
                     published, refused, current, onAir, rxQueue>>
  BY DEF TransportSend, switchVars, compVars
<1>3. PeerAddress \in AnyPeer /\ "transport" \notin Switches
  BY SwitchAssumption
<1>4. f \in Frames /\ f.by = "transport" /\ f.ch = 0
  BY <1>3, FrameFacts DEF Texts, Channels
<1>5. paired' \subseteq paired \cup {PeerAddress} /\ paired' \subseteq peers'
  BY <1>0, <1>1 DEF PairedBySend, PairedByAdd, ListedInv
<1>6. peers' \subseteq AnyPeer /\ paired' \subseteq AnyPeer
  BY <1>0, <1>1, <1>3, <1>5 DEF TypeOK
<1>7. \/ UNCHANGED <<txQueue, leaked>>
      \/ txQueue' = txQueue /\ leaked' = leaked + 1 /\ Taken < PoolSize
      \/ txQueue' = Append(txQueue, f) /\ leaked' = leaked /\ Taken < PoolSize
  BY <1>1 DEF Accepts, Push, Enqueue, sendVars
<1> HIDE DEF f
<1>8. /\ txQueue \in Seq(Frames) /\ Len(txQueue) \in Nat
      /\ Append(txQueue, f) \in Seq(Frames) /\ Len(Append(txQueue, f)) = Len(txQueue) + 1
      /\ \A i \in 1..Len(txQueue) : Append(txQueue, f)[i] = txQueue[i]
      /\ Append(txQueue, f)[Len(txQueue) + 1] = f
      /\ DOMAIN txQueue = 1..Len(txQueue)
      /\ DOMAIN Append(txQueue, f) = 1..Len(txQueue)+1
  BY <1>0, <1>4, AppendProperties, LenProperties DEF TypeOK
<1>9. txQueue' \in Seq(Frames) /\ leaked' \in Nat /\ Taken' <= PoolSize
  BY <1>0, <1>2, <1>4, <1>7, <1>8, TakenBound
<1>10. TypeOK'
  BY <1>0, <1>2, <1>6, <1>9 DEF TypeOK
<1>11. QueuedOnChannel'
  BY <1>0, <1>2, <1>4, <1>7, <1>8 DEF QueuedOnChannel
<1>12. NewestSays'
  <2>1. SameFrames(txQueue)
    BY <1>8 DEF SameFrames
  <2>2. CASE txQueue' = txQueue
    BY <1>0, <1>2, <2>1, <2>2, NewestKept
  <2>3. CASE txQueue' = Append(txQueue, f)
    BY <1>0, <1>2, <1>3, <1>4, <2>1, <2>3, NewestAppended
  <2> QED
    BY <1>7, <2>2, <2>3
<1>13. FramesOnTheirChannel'
  BY <1>2 DEF C6Inv, FramesOnTheirChannel, None
<1> QED
  BY <1>5, <1>10, <1>11, <1>12, <1>13 DEF C6Inv, ListedInv

\* Steps that leave the queue, the radio and the published states alone, and put
\* nothing on the air.
Others ==
    \/ Disable \/ DelBroadcast \/ (\E src \in Sources : ReceivePacket(src)) \/ ReportSent
    \/ LoopBegin \/ LoopPacket \/ LoopUnknown \/ LoopReport
    \/ Boot /\ (failed \/ ~EnableOnBoot)

LEMMA C6Others == ASSUME C6Inv, Others PROVE C6Inv'
<1>0. TypeOK /\ ListedInv /\ NewestSays /\ QueuedOnChannel /\ FramesOnTheirChannel
  BY DEF C6Inv
<1> USE DEF Others, Disable, DelBroadcast, ReceivePacket, ReportSent, LoopBegin, LoopPacket,
            LoopUnknown, LoopReport, Boot
<1>1. /\ UNCHANGED <<txQueue, leaked, radio, published, refused>>
      /\ onAir' \in {onAir, None}
  BY DEF switchVars, queueVars, sendVars
<1>2. /\ state' \in {"OFF", "ENABLED", "DISABLED"} /\ UNCHANGED <<failed, wifi, cached>>
      /\ driver' \in BOOLEAN /\ current' \in {current, None}
  BY <1>0 DEF queueVars, peerVars, compVars, TypeOK
<1>3. wifiChannel' \in Byte
  <2>1. CASE LoopBegin
    <3>1. wifiChannel' \in {wifiChannel, radio}
      BY <2>1
    <3> QED
      BY <1>0, <3>1 DEF TypeOK, RadioChannels, Byte
  <2>2. CASE ~LoopBegin
    <3>1. wifiChannel' = wifiChannel
      BY <2>2 DEF queueVars
    <3> QED
      BY <1>0, <3>1 DEF TypeOK
  <2> QED
    BY <2>1, <2>2
<1>4. rxQueue' \in Seq(Sources \cup {"report"})
  <2>1. rxQueue \in Seq(Sources \cup {"report"})
    BY <1>0 DEF TypeOK
  <2>2. ASSUME NEW e \in Sources \cup {"report"}, Arrive(e)
        PROVE  rxQueue' \in Seq(Sources \cup {"report"})
    BY <2>1, <2>2, AppendProperties DEF Arrive
  <2>3. CASE rxQueue # <<>> /\ rxQueue' = Tail(rxQueue)
    BY <2>1, <2>3, HeadTailProperties
  <2>4. CASE UNCHANGED rxQueue
    BY <2>1, <2>4
  <2> QED
    BY <2>2, <2>3, <2>4 DEF queueVars
<1>5. paired' \subseteq peers' /\ peers' \subseteq AnyPeer
  <2>1. CASE LoopUnknown
    <3>1. inHand \in Sources /\ inHand \in AnyPeer
      BY <1>0, <2>1 DEF TypeOK, AnyPeer
    <3>2. PICK after \in IF AutoAddPeer THEN PairedByAdd(inHand, failed, paired)
                         ELSE {paired} :
            /\ paired' = after
            /\ peers' = IF AutoAddPeer /\ state = "ENABLED" /\ ~failed /\ inHand \in after
                        THEN peers \cup {inHand} ELSE peers
      BY <2>1, Zenon DEF LoopUnknown
    <3>3. \/ after = paired
          \/ AutoAddPeer /\ state = "ENABLED" /\ ~failed /\ after = paired \cup {inHand}
      BY <3>2 DEF PairedByAdd
    <3>4. paired \subseteq peers /\ peers \subseteq AnyPeer
      BY <1>0 DEF TypeOK, ListedInv
    <3>5. CASE after = paired
      BY <3>1, <3>2, <3>4, <3>5
    <3>6. CASE AutoAddPeer /\ state = "ENABLED" /\ ~failed /\ after = paired \cup {inHand}
      BY <3>1, <3>2, <3>4, <3>6
    <3> QED
      BY <3>3, <3>5, <3>6
  <2>2. CASE ~LoopUnknown
    BY <1>0, <2>2 DEF TypeOK, ListedInv, peerVars
  <2> QED
    BY <2>1, <2>2
<1>6. /\ pc' \in {"boot", "idle", "drain", "unknown", "handler", "aborted"}
      /\ inHand' \in IF pc' = "unknown" THEN Sources ELSE {"none"}
  <2>1. CASE LoopPacket
    <3>1. Head(rxQueue) \in Sources
      BY <1>0, <2>1, HeadTailProperties DEF TypeOK
    <3>2. pc # "unknown" /\ inHand = "none"
      BY <1>0, <2>1 DEF InLoop, TypeOK
    <3> QED
      BY <2>1, <3>1, <3>2
  <2>2. CASE LoopUnknown
    BY <2>2
  <2>3. CASE LoopReport
    BY <1>0, <2>3 DEF InLoop, TypeOK
  <2>4. CASE LoopBegin \/ Boot
    <3>1. inHand = "none" /\ inHand' = inHand /\ pc' # "unknown" /\ pc' \in {"idle", "drain"}
      BY <1>0, <2>4 DEF TypeOK, Enable_
    <3> QED
      BY <3>1
  <2>5. CASE UNCHANGED <<pc, inHand>>
    BY <1>0, <2>5 DEF TypeOK
  <2> QED
    BY <2>1, <2>2, <2>3, <2>4, <2>5
<1>7. TypeOK'
  <2>1. Taken' <= PoolSize
    <3>1. /\ Len(txQueue) \in Nat /\ leaked \in Nat /\ Taken <= PoolSize /\ PoolSize \in Nat
      BY <1>0, SwitchAssumption, LenProperties DEF TypeOK
    <3> QED
      BY <1>1, <1>2, <3>1 DEF Taken
  <2> QED
    BY <1>0, <1>1, <1>2, <1>3, <1>4, <1>5, <1>6, <2>1 DEF TypeOK
<1>8. NewestSays' /\ QueuedOnChannel'
  BY <1>0, <1>1 DEF NewestSays, NewestIs, QueuedOnChannel
<1>9. FramesOnTheirChannel'
  BY <1>0, <1>1 DEF FramesOnTheirChannel
<1> QED
  BY <1>5, <1>7, <1>8, <1>9 DEF C6Inv, ListedInv

\* The driver takes a frame that names no other channel than the radio's, unless
\* it was overtaken.
LEMMA C6LoopEnd == C6Inv /\ LoopEnd => C6Inv'
<1> SUFFICES ASSUME C6Inv, LoopEnd PROVE C6Inv'
  OBVIOUS
<1>0. TypeOK /\ ListedInv /\ NewestSays /\ QueuedOnChannel /\ FramesOnTheirChannel
  BY DEF C6Inv
<1>1. /\ UNCHANGED <<inHand, state, failed, driver, wifi, radio, wifiChannel, paired, peers,
                     cached, published, refused, leaked, rxQueue>>
      /\ pc' = "idle" /\ pc # "unknown"
  BY DEF LoopEnd, InLoop, compVars, peerVars, switchVars
<1>2. CASE current # None \/ txQueue = <<>>
  <2>1. UNCHANGED <<txQueue, current, onAir>>
    BY <1>2 DEF LoopEnd
  <2> QED
    BY <1>0, <1>1, <2>1 DEF C6Inv, TypeOK, Taken, ListedInv, QueuedOnChannel, NewestSays,
         NewestIs, FramesOnTheirChannel
<1>3. CASE current = None /\ txQueue # <<>>
  <2> DEFINE f == Head(txQueue)
  <2>1. /\ txQueue' = Tail(txQueue)
        /\ \/ radio # 0 /\ current' = f /\ onAir' = [frame |-> f, on |-> radio]
           \/ UNCHANGED <<current, onAir>>
    BY <1>3 DEF LoopEnd
  <2>2. /\ f \in Frames /\ f = txQueue[1] /\ 1 \in DOMAIN txQueue
        /\ DOMAIN txQueue = 1..Len(txQueue) /\ Len(txQueue) \in Nat
        /\ txQueue' \in Seq(Frames) /\ Len(txQueue') = Len(txQueue) - 1
        /\ DOMAIN txQueue' = 1..Len(txQueue)-1
        /\ \A i \in 1..Len(txQueue)-1 : txQueue'[i] = txQueue[i+1]
    BY <1>0, <1>3, <2>1, HeadTailProperties, LenProperties, EmptySeq DEF TypeOK
  <2> HIDE DEF f
  <2>3. Taken' <= PoolSize
    <3>1. /\ Taken = Len(txQueue) + leaked /\ Taken <= PoolSize /\ PoolSize \in Nat
          /\ leaked \in Nat
      BY <1>0, <1>3, <2>2, SwitchAssumption DEF Taken, TypeOK
    <3> DEFINE n == IF current' = None THEN 0 ELSE 1
    <3>2. Taken' = Len(txQueue') + leaked + n /\ n \in {0, 1}
      BY <1>1 DEF Taken
    <3> HIDE DEF n
    <3> QED
      BY <2>2, <3>1, <3>2
  <2>4. TypeOK'
    <3>1. current' \in Frames \cup {None}
      BY <1>0, <2>1, <2>2 DEF TypeOK
    <3>2. onAir' \in [frame : Frames, on : RadioChannels] \cup {None}
      BY <1>0, <2>1, <2>2 DEF TypeOK
    <3> QED
      BY <1>0, <1>1, <2>2, <2>3, <3>1, <3>2 DEF TypeOK
  <2>5. QueuedOnChannel'
    BY <1>0, <1>1, <2>2 DEF QueuedOnChannel
  <2>6. NewestSays'
    BY <1>0, <1>1, <1>3, <2>1, NewestTail
  <2>7. FramesOnTheirChannel'
    BY <1>0, <2>1, <2>2 DEF FramesOnTheirChannel, QueuedOnChannel
  <2> QED
    BY <1>0, <1>1, <2>4, <2>5, <2>6, <2>7 DEF C6Inv, ListedInv
<1> QED
  BY <1>2, <1>3

\* The invariant is inductive.
LEMMA C6Step == C6Inv /\ [Next]_c6vars => C6Inv'
<1> SUFFICES ASSUME C6Inv, [Next]_c6vars PROVE C6Inv'
  OBVIOUS
<1>1. CASE Boot
  <2>1. CASE failed \/ ~EnableOnBoot
    BY <1>1, <2>1, C6Others DEF Others
  <2>2. CASE ~(failed \/ ~EnableOnBoot)
    BY <1>1, <2>2, C6Channel DEF Boot
  <2> QED
    BY <2>1, <2>2
<1>2. CASE Enable
  BY <1>2, C6Channel DEF Enable
<1>3. CASE WifiChanges
  BY <1>3, C6Channel
<1>4. CASE \E ch \in UserChannels : SetChannel(ch) \/ SetChannelAction(ch)
  BY <1>4, C6Channel DEF SetChannel, SetChannelAction
<1>5. CASE TransportSend
  BY <1>5, C6Transport
<1>6. CASE \/ SendCustomMessage
           \/ \E s \in Switches, on \in {"on", "off"} : WriteState(s, on)
           \/ \E cmd \in Commands : ControllerSend(cmd)
  BY <1>6, C6Clients
<1>7. CASE \/ Disable \/ DelBroadcast \/ ReportSent \/ LoopBegin \/ LoopPacket
           \/ LoopUnknown \/ LoopReport \/ \E src \in Sources : ReceivePacket(src)
  BY <1>7, C6Others DEF Others
<1>8. CASE LoopEnd
  BY <1>8, C6LoopEnd
<1>9. CASE Restart
  BY <1>9, C6Restart
<1>10. CASE UNCHANGED c6vars
  BY <1>10 DEF c6vars, compVars, peerVars, switchVars, queueVars, sendVars, C6Inv, TypeOK,
       Taken, ListedInv, QueuedOnChannel, NewestSays, NewestIs, FramesOnTheirChannel
<1> QED
  BY <1>1, <1>2, <1>3, <1>4, <1>5, <1>6, <1>7, <1>8, <1>9, <1>10 DEF Next

\* Every reachable state satisfies the invariant.
LEMMA C6Invariant == Spec => []C6Inv
BY C6Init, C6Step, PTL DEF Spec

-----------------------------------------------------------------------------
(* The theorems.                                                            *)

\* Every variable keeps its type, and no more packets are taken than the pool of the
\* component has, whichever client queues them and whatever the queue holds.
THEOREM C6TypeCorrect == Spec => []TypeOK
BY C6Invariant, PTL DEF C6Inv

\* A frame that names a channel the driver accepts goes on the air on it, unless the
\* radio was moved while it waited, on whatever channels the switches, the automations
\* and the Wi-Fi component put the radio, and whichever channels the driver refuses.
THEOREM C6FramesOnTheirChannel == Spec => []FramesOnTheirChannel
BY C6Invariant, PTL DEF C6Inv

\* The newest of the frames of a switch whose last command was queued says the
\* state it has published, whatever the other clients queue between them.
THEOREM C6NewestSays == Spec => []NewestSays
BY C6Invariant, PTL DEF C6Inv

\* A step that queues a frame queues it to a peer that the driver has and the
\* component lists.
LEMMA C6Accepts ==
    ASSUME C6Inv, [Next]_c6vars, Len(txQueue') > Len(txQueue)
    PROVE  Last(txQueue').dst \in paired' \cap peers'
<1>0. /\ TypeOK /\ ListedInv /\ QueuedOnChannel
      /\ txQueue \in Seq(Frames) /\ Len(txQueue) \in Nat
  BY LenProperties DEF C6Inv, TypeOK
<1>1. \A c \in Channels : SameFrames(Overtaken(c))
  BY <1>0, OvertakenFrames
<1>2. Overtaken(radio) = txQueue /\ radio \in Channels
  BY <1>0 DEF Overtaken, TypeOK, Channels
<1>3. ASSUME NEW by \in Users, NEW cmd \in Texts, NEW ch \in Channels, NEW fails \in BOOLEAN,
             NEW stops \in BOOLEAN, NEW c \in Channels,
             Transmit(by, cmd, ch, fails, stops, Overtaken(c))
      PROVE  Last(txQueue').dst \in paired' \cap peers'
  <2> DEFINE q == Overtaken(c)
             f == Frame(by, Broadcast, cmd, ch)
  <2>1. f \in Frames /\ f.dst = Broadcast
    BY FrameFacts DEF AnyPeer
  <2>2. q \in Seq(Frames) /\ Len(q) = Len(txQueue)
    BY <1>1 DEF SameFrames
  <2>3. \/ txQueue' = q
        \/ txQueue' = Append(q, f) /\ Broadcast \in paired' \cap peers'
    BY <1>0, <1>1, <1>3, TransmitFacts
  <2> HIDE DEF q, f
  <2>4. Last(Append(q, f)) = f
    BY <2>1, <2>2, AppendProperties DEF Last
  <2>5. txQueue' # q
    BY <1>0, <2>2
  <2>6. Last(txQueue').dst = Broadcast
    BY <2>1, <2>3, <2>4, <2>5, Zenon
  <2> QED
    BY <2>3, <2>5, <2>6
<1>4. ASSUME NEW s \in Switches, NEW on \in {"on", "off"}, WriteState(s, on)
      PROVE  Last(txQueue').dst \in paired' \cap peers'
  <2> DEFINE ch == SwitchChannel[s]
  <2>1. ch \in RadioChannels /\ s \in Users /\ on \in Texts
    BY SwitchAssumption DEF Users, Texts
  <2>2. /\ Tuned(state, radio, ch) \in Channels /\ ch \in Channels
        /\ ChannelFails(state) \in BOOLEAN
    BY <1>0, <1>2, <2>1, TunedChannel DEF Channels, ChannelFails, TypeOK
  <2>3. Transmit(s, on, ch, ChannelFails(state), FALSE, Overtaken(Tuned(state, radio, ch)))
    BY <1>4 DEF WriteState
  <2> HIDE DEF ch
  <2> QED
    BY <1>3, <2>1, <2>2, <2>3
<1>5. "controller" \in Users /\ failed \in BOOLEAN
  BY <1>0 DEF Users, TypeOK
<1>6. ASSUME NEW cmd \in Commands, ControllerSend(cmd)
      PROVE  Last(txQueue').dst \in paired' \cap peers'
  <2> DEFINE ch == IF wifiChannel' \in RadioChannels THEN wifiChannel' ELSE 1
  <2>1. Transmit("controller", cmd, ch, failed, TRUE, Overtaken(radio))
    BY <1>2, <1>6 DEF ControllerSend
  <2>2. ch \in Channels /\ cmd \in Texts
    BY DEF Channels, RadioChannels, Texts
  <2> HIDE DEF ch
  <2> QED
    BY <1>2, <1>3, <1>5, <2>1, <2>2
<1>7. ASSUME SendCustomMessage PROVE Last(txQueue').dst \in paired' \cap peers'
  <2>1. Transmit("controller", "custom", 0, failed, TRUE, Overtaken(radio))
    BY <1>2, <1>7 DEF SendCustomMessage
  <2>2. 0 \in Channels /\ "custom" \in Texts
    BY DEF Channels, Texts
  <2> QED
    BY <1>2, <1>3, <1>5, <2>1, <2>2
<1>8. ASSUME TransportSend PROVE Last(txQueue').dst \in paired' \cap peers'
  <2> DEFINE f == Frame("transport", PeerAddress, "data", 0)
  <2>1. PICK after \in PairedBySend(PeerAddress, failed, paired) :
          /\ paired' = after
          /\ peers' = IF after # paired THEN peers \cup {PeerAddress} ELSE peers
          /\ IF Accepts("transport", PeerAddress, failed, after)
             THEN Push(txQueue, f) ELSE UNCHANGED sendVars
    BY <1>8 DEF TransportSend
  <2>2. txQueue' = Append(txQueue, f) /\ PeerAddress \in paired'
    BY <1>0, <2>1 DEF Accepts, Push, Enqueue, sendVars
  <2>3. paired' \subseteq peers'
    BY <1>0, <2>1 DEF PairedBySend, PairedByAdd, ListedInv
  <2>4. f \in Frames /\ f.dst = PeerAddress
    <3>1. /\ PeerAddress \in AnyPeer /\ "data" \in Texts /\ 0 \in Channels
          /\ "transport" \in Users \cup {"transport"}
      BY SwitchAssumption DEF Texts, Channels
    <3> QED
      BY <3>1, FrameFacts
  <2> HIDE DEF f
  <2>5. Last(txQueue') = f
    BY <1>0, <2>2, <2>4, AppendProperties DEF Last
  <2> QED
    BY <2>2, <2>3, <2>4, <2>5
<1>9. \/ \E s \in Switches, on \in {"on", "off"} : WriteState(s, on)
      \/ \E cmd \in Commands : ControllerSend(cmd)
      \/ SendCustomMessage \/ TransportSend
  <2>1. ~ (txQueue' = txQueue)
    BY <1>0
  <2>2. \A c \in Channels : ~ (txQueue' = Overtaken(c))
    BY <1>0, <1>1 DEF SameFrames
  <2>3. radio' \in Channels
    BY C6Step DEF C6Inv, TypeOK, Channels
  <2>4. ASSUME NEW st, NEW ok \in BOOLEAN PROVE ~ Enable_(st, ok)
    BY <2>2, <2>3 DEF Enable_
  <2>5. ASSUME NEW ch \in UserChannels PROVE ~ SetWifiChannel(ch)
    BY <2>2, <2>3 DEF SetWifiChannel
  <2>6. ~ Boot /\ ~ Enable /\ ~ WifiChanges
        /\ ~ (\E ch \in UserChannels : SetChannel(ch) \/ SetChannelAction(ch))
    BY <2>1, <2>2, <2>3, <2>4, <2>5 DEF Boot, Enable, WifiChanges, SetChannel,
       SetChannelAction, queueVars, sendVars
  <2>7. ~ LoopEnd
    <3>1. ASSUME txQueue # <<>>, txQueue' = Tail(txQueue) PROVE FALSE
      BY <1>0, <3>1, HeadTailProperties
    <3> QED
      BY <2>1, <3>1 DEF LoopEnd
  <2>8. ~ Restart
    <3> SUFFICES ASSUME Restart PROVE FALSE
      OBVIOUS
    <3>1. txQueue' = <<>> /\ txQueue' \in Seq(Frames)
      BY DEF Restart
    <3>2. Len(txQueue') = 0
      BY <3>1
    <3> QED
      BY <1>0, <3>2
  <2>9. /\ ~ Disable /\ ~ DelBroadcast /\ ~ (\E src \in Sources : ReceivePacket(src))
        /\ ~ ReportSent /\ ~ LoopBegin /\ ~ LoopPacket /\ ~ LoopUnknown /\ ~ LoopReport
        /\ ~ UNCHANGED c6vars
    BY <2>1 DEF Disable, DelBroadcast, ReceivePacket, ReportSent, LoopBegin, LoopPacket,
       LoopUnknown, LoopReport, queueVars, sendVars, c6vars
  <2> QED
    BY <2>6, <2>7, <2>8, <2>9 DEF Next
<1> QED
  BY <1>4, <1>6, <1>7, <1>8, <1>9

\* A frame is only queued to a peer that the driver has and the component lists,
\* however stale the clients' own flags are.
THEOREM C6AcceptedArePaired == Spec => AcceptedArePaired
<1>1. C6Inv /\ [Next]_c6vars =>
        [Len(txQueue') > Len(txQueue) => Last(txQueue').dst \in paired' \cap peers']_c6vars
  BY C6Accepts
<1> QED
  BY C6Invariant, <1>1, PTL DEF Spec, AcceptedArePaired

-----------------------------------------------------------------------------
(* One channel for all.                                                     *)

\* The channels that anybody sets are c, which the driver accepts, and there is no
\* Wi-Fi to move the radio.
OnlyChannel(c) ==
    /\ c \in Tunable /\ ~UsesWifi /\ ConfigChannel = c /\ UserChannels \subseteq {c}
    /\ \A s \in Switches : SwitchChannel[s] = c

\* Then the radio is on c whenever it is on, or the component has failed for good,
\* when it was disabled before its setup(), and sends nothing; and the frames name
\* c or none.
AtHome(c) == radio \in {0, c} /\ wifiChannel = c
FailedForGood == failed /\ pc \in {"boot", "idle", "aborted"}
OnChannelInv(c) ==
    /\ ~wifi
    /\ AtHome(c) \/ FailedForGood
    /\ \A i \in DOMAIN txQueue : txQueue[i].ch \in {0, c}
    /\ onAir # None => onAir.on = c /\ onAir.frame.ch \in {0, c}

\* The clients' call of send() adds a frame that names c, or none, at most; and
\* none in a component that has failed.
LEMMA TransmitOneChannel ==
    ASSUME C6Inv, NEW c \in RadioChannels, OnChannelInv(c),
           NEW by \in Users, NEW cmd \in Texts, NEW ch \in Channels,
           NEW fails \in BOOLEAN, NEW stops \in BOOLEAN, fails \/ ch \in {0, c},
           NEW q, SameFrames(q), Transmit(by, cmd, ch, fails, stops, q)
    PROVE  \A i \in DOMAIN txQueue' : txQueue'[i].ch \in {0, c}
<1> DEFINE f == Frame(by, Broadcast, cmd, ch)
<1>0. TypeOK /\ ListedInv
  BY DEF C6Inv
<1>1. txQueue' = q \/ (txQueue' = Append(q, f) /\ ch \in {0, c})
  BY <1>0, TransmitFacts
<1>2. f \in Frames /\ f.ch = ch
  BY FrameFacts DEF AnyPeer
<1> HIDE DEF f
<1>3. /\ q \in Seq(Frames) /\ DOMAIN q = 1..Len(q) /\ Len(q) \in Nat
      /\ DOMAIN Append(q, f) = 1..Len(q)+1
  BY <1>0, <1>2, AppendProperties, LenProperties DEF SameFrames, TypeOK
<1>4. /\ \A i \in 1..Len(q) : Append(q, f)[i] = q[i]
      /\ Append(q, f)[Len(q) + 1] = f
  BY <1>2, <1>3, AppendProperties
<1>5. \A i \in 1..Len(q) : q[i].ch \in {0, c}
  BY <1>0, <1>3, LenProperties DEF SameFrames, OnChannelInv, TypeOK
<1> QED
  BY <1>1, <1>2, <1>3, <1>4, <1>5

\* A queue of the same frames names the same channels.
LEMMA SameOneChannel ==
    ASSUME TypeOK, NEW c, OnChannelInv(c), SameFrames(txQueue')
    PROVE  \A i \in DOMAIN txQueue' : txQueue'[i].ch \in {0, c}
BY LenProperties DEF SameFrames, OnChannelInv, TypeOK

\* Enabling the component and setting the channel put the radio on c, when it is on,
\* or the component is marked failed.
LEMMA OneChannelTuned ==
    ASSUME NEW c \in RadioChannels, OnlyChannel(c), C6Inv, OnChannelInv(c),
           \/ Boot
           \/ Enable
           \/ \E ch \in UserChannels : SetChannel(ch) \/ SetChannelAction(ch)
    PROVE  OnChannelInv(c)'
<1>0. TypeOK /\ c \in Channels /\ c # 0 /\ c \in Tunable /\ ~wifi
  BY DEF C6Inv, Channels, RadioChannels, OnlyChannel, OnChannelInv
<1>1. ASSUME NEW st, NEW ok \in BOOLEAN, Enable_(st, ok)
      PROVE  /\ \A i \in DOMAIN txQueue' : txQueue'[i].ch \in {0, c}
             /\ UNCHANGED <<wifi, onAir>>
             /\ failed \/ (st = "DISABLED" /\ radio = 0) => failed'
             /\ AtHome(c) /\ ~(st = "DISABLED" /\ radio = 0) => AtHome(c)'
  <2>1. /\ txQueue' = Overtaken(radio') /\ UNCHANGED <<wifi, onAir>>
        /\ failed \/ st = "DISABLED" => failed'
        /\ wifiChannel' = radio'
        /\ radio' = Tuned(st, IF radio = 0 THEN 1 ELSE radio, wifiChannel)
    BY <1>0, <1>1 DEF Enable_, ChannelFails
  <2>2. radio' \in Channels
    <3>1. (IF radio = 0 THEN 1 ELSE radio) \in Channels
      BY <1>0 DEF TypeOK, Channels, RadioChannels
    <3> QED
      BY <2>1, <3>1, TunedChannel
  <2>3. \A i \in DOMAIN txQueue' : txQueue'[i].ch \in {0, c}
    BY <1>0, <2>1, <2>2, OvertakenFrames, SameOneChannel DEF C6Inv
  <2>4. ASSUME AtHome(c), ~(st = "DISABLED" /\ radio = 0) PROVE AtHome(c)'
    BY <1>0, <2>1, <2>4 DEF AtHome, Tuned
  <2> QED
    BY <2>1, <2>3, <2>4
<1>2. CASE Boot
  <2>1. pc = "boot" /\ pc' = "idle" /\ (AtHome(c) \/ failed)
    BY <1>2 DEF Boot, OnChannelInv, FailedForGood
  <2>2. ASSUME NEW ok \in BOOLEAN, ~failed, Enable_(state, ok) PROVE OnChannelInv(c)'
    BY <1>0, <1>1, <2>1, <2>2 DEF OnChannelInv, FailedForGood, None
  <2>3. CASE failed \/ ~EnableOnBoot
    <3>1. UNCHANGED <<failed, wifi, radio, wifiChannel, txQueue, onAir>>
      BY <1>2, <2>3 DEF Boot, compVars, queueVars, sendVars
    <3> QED
      BY <2>1, <3>1 DEF OnChannelInv, AtHome, FailedForGood, None
  <2> QED
    BY <1>2, <2>2, <2>3 DEF Boot
<1>3. CASE Enable
  <2>1. PICK ok \in BOOLEAN : Enable_("OFF", ok)
    BY <1>3 DEF Enable
  <2>2. pc' = pc
    BY <1>3 DEF Enable
  <2> QED
    BY <1>0, <1>1, <2>1, <2>2 DEF OnChannelInv, FailedForGood, None
<1>4. ASSUME NEW ch \in UserChannels, SetWifiChannel(ch) PROVE OnChannelInv(c)'
  <2>1. /\ radio' = Tuned(state, radio, c) /\ wifiChannel' = c /\ txQueue' = Overtaken(radio')
        /\ (failed => failed') /\ UNCHANGED <<pc, wifi, onAir>>
    BY <1>4 DEF SetWifiChannel, OnlyChannel, ChannelFails
  <2>2. radio' \in Channels
    BY <1>0, <2>1, TunedChannel DEF TypeOK, Channels
  <2>3. \A i \in DOMAIN txQueue' : txQueue'[i].ch \in {0, c}
    BY <1>0, <2>1, <2>2, OvertakenFrames, SameOneChannel DEF C6Inv
  <2>4. AtHome(c) => AtHome(c)'
    BY <2>1 DEF AtHome, Tuned
  <2> QED
    BY <2>1, <2>3, <2>4 DEF OnChannelInv, FailedForGood, None
<1> QED
  BY <1>2, <1>3, <1>4 DEF SetChannel, SetChannelAction

\* A client that sends names c, or sends nothing.
LEMMA OneChannelClients ==
    ASSUME NEW c \in RadioChannels, OnlyChannel(c), C6Inv, OnChannelInv(c),
           \/ \E s \in Switches, on \in {"on", "off"} : WriteState(s, on)
           \/ \E cmd \in Commands : ControllerSend(cmd)
           \/ SendCustomMessage
           \/ TransportSend
    PROVE  OnChannelInv(c)'
<1>0. /\ TypeOK /\ c \in Channels /\ c # 0 /\ Overtaken(radio) = txQueue
      /\ radio \in Channels /\ 0 \in Channels /\ failed \in BOOLEAN
  BY DEF C6Inv, Channels, RadioChannels, Overtaken, TypeOK
<1>1. SameFrames(txQueue)
  BY <1>0 DEF SameFrames, TypeOK
<1>2. ASSUME NEW s \in Switches, NEW on \in {"on", "off"}, WriteState(s, on)
      PROVE  OnChannelInv(c)'
  <2>1. /\ radio' = Tuned(state, radio, c) /\ wifiChannel' = c
        /\ (failed => failed') /\ UNCHANGED <<pc, wifi, onAir>>
        /\ Transmit(s, on, c, ChannelFails(state), FALSE, Overtaken(radio'))
    BY <1>2 DEF WriteState, OnlyChannel, ChannelFails
  <2>2. radio' \in Channels
    BY <1>0, <2>1, TunedChannel
  <2>3. /\ SameFrames(Overtaken(radio')) /\ s \in Users /\ on \in Texts
        /\ ChannelFails(state) \in BOOLEAN
    BY <1>0, <2>2, OvertakenFrames DEF C6Inv, Users, Texts, ChannelFails
  <2>4. \A i \in DOMAIN txQueue' : txQueue'[i].ch \in {0, c}
    BY <1>0, <2>1, <2>3, TransmitOneChannel
  <2>5. AtHome(c) => AtHome(c)'
    BY <2>1 DEF AtHome, Tuned
  <2> QED
    BY <2>1, <2>4, <2>5 DEF OnChannelInv, FailedForGood, None
<1>3. ASSUME NEW cmd \in Commands, ControllerSend(cmd) PROVE OnChannelInv(c)'
  <2> DEFINE ch == IF wifiChannel' \in RadioChannels THEN wifiChannel' ELSE 1
  <2>1. /\ wifiChannel' = (IF radio = 0 THEN wifiChannel ELSE radio)
        /\ UNCHANGED <<pc, radio, failed, wifi, onAir>>
        /\ Transmit("controller", cmd, ch, failed, TRUE, txQueue)
    BY <1>3 DEF ControllerSend, compVars
  <2>2. "controller" \in Users /\ cmd \in Texts /\ ch \in Channels
    BY DEF Users, Texts, Channels, RadioChannels
  <2>3. failed \/ ch \in {0, c}
    BY <2>1 DEF OnChannelInv, AtHome, FailedForGood
  <2> HIDE DEF ch
  <2>4. \A i \in DOMAIN txQueue' : txQueue'[i].ch \in {0, c}
    BY <1>0, <1>1, <2>1, <2>2, <2>3, TransmitOneChannel
  <2> QED
    BY <2>1, <2>4 DEF OnChannelInv, AtHome, FailedForGood, None
<1>4. CASE SendCustomMessage
  <2>1. /\ UNCHANGED <<pc, failed, radio, wifiChannel, wifi, onAir>>
        /\ Transmit("controller", "custom", 0, failed, TRUE, txQueue)
    BY <1>4 DEF SendCustomMessage, compVars
  <2>2. "controller" \in Users /\ "custom" \in Texts
    BY DEF Users, Texts
  <2>3. \A i \in DOMAIN txQueue' : txQueue'[i].ch \in {0, c}
    BY <1>0, <1>1, <2>1, <2>2, TransmitOneChannel
  <2> QED
    BY <2>1, <2>3 DEF OnChannelInv, AtHome, FailedForGood, None
<1>5. CASE TransportSend
  <2> DEFINE f == Frame("transport", PeerAddress, "data", 0)
  <2>1. /\ UNCHANGED <<pc, failed, radio, wifiChannel, wifi, onAir>>
        /\ txQueue' = txQueue \/ txQueue' = Append(txQueue, f)
    BY <1>5 DEF TransportSend, Push, Enqueue, compVars, sendVars
  <2>2. f \in Frames /\ f.ch = 0
    BY SwitchAssumption, FrameFacts DEF Texts, Channels
  <2> HIDE DEF f
  <2>3. /\ DOMAIN txQueue = 1..Len(txQueue) /\ DOMAIN Append(txQueue, f) = 1..Len(txQueue)+1
        /\ Len(txQueue) \in Nat
        /\ \A i \in 1..Len(txQueue) : Append(txQueue, f)[i] = txQueue[i]
        /\ Append(txQueue, f)[Len(txQueue) + 1] = f
    BY <1>0, <2>2, AppendProperties, LenProperties DEF TypeOK
  <2>4. \A i \in DOMAIN txQueue' : txQueue'[i].ch \in {0, c}
    BY <2>1, <2>2, <2>3 DEF OnChannelInv
  <2> QED
    BY <2>1, <2>4 DEF OnChannelInv, AtHome, FailedForGood, None
<1> QED
  BY <1>2, <1>3, <1>4, <1>5

\* Every step keeps the radio, and the frames, on the one channel.
LEMMA OneChannelStep ==
    ASSUME NEW c \in RadioChannels, OnlyChannel(c), C6Inv, OnChannelInv(c), [Next]_c6vars
    PROVE  OnChannelInv(c)'
<1>0. TypeOK /\ c # 0
  BY DEF C6Inv, RadioChannels
<1>1. ~WifiChanges
  BY DEF WifiChanges, OnlyChannel
<1>2. CASE LoopEnd
  <2>1. UNCHANGED <<radio, wifiChannel, wifi>> /\ AtHome(c)
    BY <1>2 DEF LoopEnd, InLoop, compVars, OnChannelInv, FailedForGood
  <2>2. CASE UNCHANGED <<txQueue, onAir>>
    BY <2>1, <2>2 DEF OnChannelInv, AtHome, None
  <2>3. ASSUME txQueue # <<>>, txQueue' = Tail(txQueue),
               \/ radio # 0 /\ onAir' = [frame |-> Head(txQueue), on |-> radio]
               \/ onAir' = onAir
        PROVE  OnChannelInv(c)'
    <3>1. /\ DOMAIN txQueue = 1..Len(txQueue) /\ Len(txQueue) \in Nat \ {0}
          /\ DOMAIN txQueue' = 1..Len(txQueue)-1 /\ Head(txQueue) = txQueue[1]
          /\ \A i \in 1..Len(txQueue)-1 : txQueue'[i] = txQueue[i+1]
      BY <1>0, <2>3, LenProperties, HeadTailProperties DEF TypeOK
    <3>2. Head(txQueue).ch \in {0, c} /\ \A i \in DOMAIN txQueue' : txQueue'[i].ch \in {0, c}
      BY <3>1 DEF OnChannelInv
    <3> QED
      BY <2>1, <2>3, <3>2 DEF OnChannelInv, AtHome, None
  <2> QED
    BY <1>2, <2>2, <2>3 DEF LoopEnd
<1>3. CASE Restart
  <2>1. DOMAIN txQueue' = {}
    BY <1>3 DEF Restart
  <2>2. ~wifi'
    BY <1>3, Zenon DEF Restart, OnlyChannel
  <2> QED
    BY <1>3, <2>1, <2>2 DEF Restart, OnChannelInv, AtHome, OnlyChannel
<1>4. CASE \/ Disable \/ DelBroadcast \/ (\E src \in Sources : ReceivePacket(src))
           \/ ReportSent \/ LoopBegin \/ LoopPacket \/ LoopUnknown \/ LoopReport
           \/ UNCHANGED c6vars
  <2> USE DEF Disable, DelBroadcast, ReceivePacket, ReportSent, LoopBegin, LoopPacket,
              LoopUnknown, LoopReport, c6vars
  <2>1. /\ UNCHANGED <<txQueue, radio, wifi, failed>> /\ onAir' \in {onAir, None}
    BY <1>4 DEF queueVars, sendVars, compVars
  <2>2. wifiChannel' = wifiChannel
    BY <1>4 DEF OnChannelInv
  <2>3. FailedForGood => pc' = pc
    BY <1>4 DEF FailedForGood, InLoop
  <2> QED
    BY <2>1, <2>2, <2>3 DEF OnChannelInv, AtHome, FailedForGood, None
<1>5. CASE \/ Boot \/ Enable
           \/ \E ch \in UserChannels : SetChannel(ch) \/ SetChannelAction(ch)
  BY <1>5, OneChannelTuned
<1>6. CASE \/ \E s \in Switches, on \in {"on", "off"} : WriteState(s, on)
           \/ \E cmd \in Commands : ControllerSend(cmd)
           \/ SendCustomMessage \/ TransportSend
  BY <1>6, OneChannelClients
<1> QED
  BY <1>1, <1>2, <1>3, <1>4, <1>5, <1>6 DEF Next

\* When the component, its switches and the user's code are configured for one
\* channel, and there is no Wi-Fi component, a frame that names a channel goes on
\* the air on it: nothing that the clients do in between, no restart and no order
\* of disabling and enabling moves the radio under a frame that waits.
THEOREM C6OneChannel ==
    ASSUME NEW c \in RadioChannels, OnlyChannel(c)
    PROVE  Spec => [](onAir # None => onAir.frame.ch \in {0, onAir.on})
<1>1. Init => OnChannelInv(c)
  <2> SUFFICES ASSUME Init PROVE OnChannelInv(c)
    OBVIOUS
  <2>1. ~wifi
    BY Zenon DEF Init, OnlyChannel
  <2>2. DOMAIN txQueue = {}
    BY DEF Init
  <2> QED
    BY <2>1, <2>2 DEF Init, OnChannelInv, AtHome, OnlyChannel
<1>2. C6Inv /\ OnChannelInv(c) /\ [Next]_c6vars => OnChannelInv(c)'
  BY OneChannelStep
<1>3. OnChannelInv(c) => (onAir # None => onAir.frame.ch \in {0, onAir.on})
  BY DEF OnChannelInv
<1> QED
  BY C6Invariant, <1>1, <1>2, <1>3, PTL DEF Spec
=============================================================================
