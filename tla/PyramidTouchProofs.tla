------------------------- MODULE PyramidTouchProofs -------------------------
(***************************************************************************)
(* Proofs about PyramidTouch, for any clock width, timeout and gap between  *)
(* polls that TimeAssumption allows, and any readings.                      *)
(***************************************************************************)
EXTENDS PyramidTouch, TLAPS

\* The strengthening: a pending press and a lone one, kept with their types.
TouchInv == TypeOK /\ PendingInv /\ AloneInv

\* The two pads of a side are each other's other.
LEMMA SidePads ==
    ASSUME NEW s \in Sides, NEW p \in PadsOf(s)
    PROVE  /\ p \in Pads /\ p # None /\ Lead(s) \in PadsOf(s)
           /\ Other(p) \in PadsOf(s) /\ Other(p) # p /\ Other(Other(p)) = p
           /\ PadsOf(s) = {p, Other(p)}
           /\ Code(p) \in Pads
BY DEF Sides, PadsOf, Lead, Other, Pads, Code, None

\* The clock stays a word, and unsigned differences within the window are real
\* time: the next poll is too near for the clock to come round.
LEMMA Clock ==
    ASSUME NEW time \in 0..(Word - 1), NEW earlier \in 0..(Word - 1),
           NEW gap \in 1..MaxGap
    PROVE  /\ Advance(time, gap) \in 0..(Word - 1)
           /\ Elapsed(time, earlier) \in Nat
           /\ Elapsed(time, time) = 0
           /\ Elapsed(time, earlier) <= Timeout =>
                Elapsed(Advance(time, gap), earlier) = Elapsed(time, earlier) + gap
BY TimeAssumption DEF Advance, Elapsed

\* Before the first poll nothing is touched or pending.
LEMMA TouchInit == Init => TouchInv
BY TimeAssumption DEF Init, TouchInv, TypeOK, PendingInv, AloneInv, None, Pads, Sides

\* What a poll does to one side, with the next state's last_state_ for the
\* readings.
LEMMA PollSide ==
    ASSUME NEW gap \in 1..MaxGap, NEW reading, Poll(gap, reading), NEW s \in Sides
    PROVE  LET time == Advance(now, gap)
           IN /\ now' = time
              /\ first'[s] = IF Opens(s, last') THEN Opener(s, last')
                             ELSE IF Keeps(s, last', time) THEN first[s] ELSE None
              /\ since'[s] = IF Opens(s, last') THEN time ELSE since[s]
              /\ swiped'[s] = IF PublishSwipe /\ Completes(s, last', time)
                              THEN Code(first[s]) ELSE None
              /\ LET a == IF Touched(last, s) THEN alone[s] ELSE Opener(s, last')
                 IN alone'[s] = IF a # None /\ last'[a] /\ ~last'[Other(a)]
                                THEN a ELSE None
              /\ \A p \in Pads :
                   age'[p] = IF Pressed(last', p) THEN 0 ELSE Later(age[p], gap)
BY DEF Poll, DetectSwipes, Remembered

\* A poll keeps every type.
LEMMA PollTypes ==
    ASSUME TypeOK, PendingInv, NEW gap \in 1..MaxGap, NEW reading, Poll(gap, reading)
    PROVE  TypeOK'
<1>1. /\ now' \in 0..(Word - 1)
      /\ last' \in [Pads -> BOOLEAN] /\ shown' \in [Pads -> BOOLEAN]
  BY Clock DEF Poll, TypeOK
<1>2. \A s \in Sides : \A touch : Opener(s, touch) \in Pads
  BY SidePads DEF Opener, PadsOf
<1>3. first' \in [Sides -> Pads \cup {None}]
  BY <1>2 DEF Poll, DetectSwipes, TypeOK
<1>4. since' \in [Sides -> 0..(Word - 1)]
  BY Clock DEF Poll, DetectSwipes, TypeOK
<1>5. swiped' \in [Sides -> Pads \cup {None}]
  BY SidePads DEF Poll, DetectSwipes, PendingInv, Completes
<1>6. age' \in [Pads -> 0..(Timeout + 1)]
  BY TimeAssumption DEF Poll, Remembered, TypeOK, Later
<1>7. alone' \in [Sides -> Pads \cup {None}]
  BY <1>2 DEF Poll, Remembered, TypeOK
<1> QED
  BY <1>1, <1>3, <1>4, <1>5, <1>6, <1>7 DEF TypeOK

\* A poll keeps a pending press fresh, or drops it.
LEMMA PollPending ==
    ASSUME TouchInv, NEW gap \in 1..MaxGap, NEW reading, Poll(gap, reading)
    PROVE  PendingInv'
<1> SUFFICES ASSUME NEW s \in Sides, first'[s] # None
             PROVE  /\ first'[s] \in PadsOf(s)
                    /\ Touched(last', s)
                    /\ age'[first'[s]] <= Elapsed(now', since'[s])
                    /\ Elapsed(now', since'[s]) <= Timeout
  BY DEF PendingInv, Touched
<1> DEFINE time == Advance(now, gap)
<1>1. /\ TypeOK' /\ now \in 0..(Word - 1) /\ since[s] \in 0..(Word - 1)
      /\ time \in 0..(Word - 1) /\ now' = time
  BY PollTypes, Clock, PollSide DEF TouchInv, TypeOK
<1>2. CASE Opens(s, last')
  <2> DEFINE a == Opener(s, last')
  <2>1. first'[s] = a /\ since'[s] = time
    BY <1>2, PollSide
  <2>2. a \in PadsOf(s) /\ Pressed(last', a)
    BY <1>2 DEF Opens, Opener, PadsOf
  <2>3. age'[a] = 0 /\ last'[a]
    BY <2>2, SidePads, PollSide DEF Pressed
  <2>4. Elapsed(time, time) = 0
    BY <1>1, Clock
  <2> QED
    BY <1>1, <2>1, <2>2, <2>3, <2>4, TimeAssumption DEF Touched
<1>3. CASE ~Opens(s, last')
  <2> DEFINE a == first[s]
  <2>1. Keeps(s, last', time) /\ first'[s] = a /\ since'[s] = since[s]
    BY <1>3, PollSide
  <2>2. /\ a \in PadsOf(s) /\ age[a] <= Elapsed(now, since[s])
        /\ Elapsed(now, since[s]) <= Timeout
    BY <2>1 DEF Keeps, TouchInv, PendingInv
  <2>3. Elapsed(time, since[s]) = Elapsed(now, since[s]) + gap
    BY <1>1, <2>2, Clock
  <2>4. age[a] \in 0..(Timeout + 1) /\ Elapsed(now, since[s]) \in Nat
    BY <1>1, <2>2, SidePads, Clock DEF TouchInv, TypeOK
  <2>5. age'[a] \in Nat /\ age'[a] <= age[a] + gap
    <3>1. age'[a] = 0 \/ age'[a] = Later(age[a], gap)
      BY <2>2, SidePads, PollSide
    <3> QED
      BY <3>1, <2>4, TimeAssumption DEF Later
  <2>6. Touched(last', s) /\ Elapsed(time, since[s]) <= Timeout
    BY <2>1 DEF Keeps, InWindow
  <2> QED
    BY <1>1, <2>1, <2>2, <2>3, <2>4, <2>5, <2>6
<1> QED
  BY <1>2, <1>3

\* A poll keeps a lone touch pending for as long as it is fresh.
LEMMA PollAlone ==
    ASSUME TouchInv, NEW gap \in 1..MaxGap, NEW reading, Poll(gap, reading)
    PROVE  AloneInv'
<1> SUFFICES ASSUME NEW s \in Sides, alone'[s] # None
             PROVE  LET a == alone'[s]
                    IN /\ a \in PadsOf(s) /\ last'[a] /\ ~last'[Other(a)]
                       /\ \/ first'[s] = a /\ age'[a] = Elapsed(now', since'[s])
                          \/ age'[a] > Timeout
  BY DEF AloneInv
<1> DEFINE time == Advance(now, gap)
           a == alone'[s]
<1>1. /\ now \in 0..(Word - 1) /\ since[s] \in 0..(Word - 1)
      /\ time \in 0..(Word - 1) /\ now' = time
  BY Clock, PollSide DEF TouchInv, TypeOK
<1>2. /\ last'[a] /\ ~last'[Other(a)]
      /\ a = IF Touched(last, s) THEN alone[s] ELSE Opener(s, last')
  BY PollSide
<1>3. CASE ~Touched(last, s)
  <2>1. a \in PadsOf(s) /\ ~last[a] /\ first[s] = None
    BY <1>2, <1>3 DEF Opener, PadsOf, Touched, TouchInv, PendingInv
  <2>2. Opens(s, last') /\ Pressed(last', a)
    BY <1>2, <2>1 DEF Opens, Pressed
  <2>3. first'[s] = a /\ since'[s] = time /\ age'[a] = 0
    BY <1>2, <1>3, <2>1, <2>2, PollSide, SidePads
  <2>4. Elapsed(time, time) = 0
    BY <1>1, Clock
  <2> QED
    BY <1>1, <1>2, <2>1, <2>3, <2>4
<1>4. CASE Touched(last, s)
  <2>1. /\ a = alone[s] /\ a \in PadsOf(s) /\ last[a] /\ ~last[Other(a)]
        /\ \/ first[s] = a /\ age[a] = Elapsed(now, since[s])
           \/ age[a] > Timeout
    BY <1>2, <1>4 DEF TouchInv, AloneInv
  <2>2. age'[a] = Later(age[a], gap) /\ age[a] \in 0..(Timeout + 1)
    BY <2>1, SidePads, PollSide DEF Pressed, TouchInv, TypeOK
  <2>3. CASE age[a] + gap > Timeout
    BY <1>2, <2>1, <2>2, <2>3, TimeAssumption DEF Later
  <2>4. CASE age[a] + gap <= Timeout
    <3>1. /\ first[s] = a /\ age[a] = Elapsed(now, since[s])
          /\ Elapsed(time, since[s]) = age[a] + gap
      BY <1>1, <2>1, <2>2, <2>4, Clock, TimeAssumption
    <3>2. a # None /\ PadsOf(s) = {a, Other(a)}
      BY <2>1, SidePads
    <3>3. ~Opens(s, last')
      BY <3>1, <3>2 DEF Opens
    <3>4. Keeps(s, last', time)
      BY <1>2, <2>1, <2>4, <3>1, <3>2 DEF Keeps, Completes, Pressed, Touched, InWindow
    <3>5. first'[s] = a /\ since'[s] = since[s]
      BY <3>1, <3>3, <3>4, PollSide
    <3> QED
      BY <1>1, <1>2, <2>1, <2>2, <2>4, <3>1, <3>5 DEF Later
  <2> QED
    BY <2>2, <2>3, <2>4, TimeAssumption
<1> QED
  BY <1>3, <1>4

\* Every poll keeps the invariant.
LEMMA TouchStep == TouchInv /\ [Next]_vars => TouchInv'
<1>1. ASSUME TouchInv, Next PROVE TouchInv'
  <2>1. PICK gap \in 1..MaxGap : \E reading : Poll(gap, reading)
    BY <1>1 DEF Next
  <2> QED
    BY <1>1, <2>1, PollTypes, PollPending, PollAlone DEF TouchInv
<1>2. ASSUME TouchInv, UNCHANGED vars PROVE TouchInv'
  BY <1>2 DEF vars, codeVars, historyVars, TouchInv, TypeOK, PendingInv, AloneInv,
     Touched
<1> QED
  BY <1>1, <1>2

\* Types, freshness and lone touches hold in every state.
LEMMA TouchInvariant == Spec => []TouchInv
<1> QED
  BY TouchInit, TouchStep, PTL DEF Spec

\* Every variable keeps its type; the clock and its copies are words.
THEOREM TouchTypes == Spec => []TypeOK
<1> QED
  BY TouchInvariant, PTL DEF TouchInv

\* A pending press is never older than the timeout in real time.
THEOREM PendingFresh == Spec => []PendingInv
<1> QED
  BY TouchInvariant, PTL DEF TouchInv

\* A lone touch is pending until its window is over.
THEOREM LonePending == Spec => []AloneInv
<1> QED
  BY TouchInvariant, PTL DEF TouchInv

\* Every published swipe is the press of its second pad, after an earlier press
\* of its first pad, within the timeout.
THEOREM GenuineSwipes == Spec => SwipesAreGenuine
<1> DEFINE Genuine ==
      \A s \in Sides : swiped'[s] # None =>
        \E a \in PadsOf(s) :
          /\ swiped'[s] = Code(a)
          /\ ~last[Other(a)] /\ last'[Other(a)]
          /\ age'[a] \in 1..Timeout
<1>1. TouchInv /\ [Next]_vars => [Genuine]_vars
  <2> SUFFICES ASSUME TouchInv, Next, NEW s \in Sides, swiped'[s] # None
               PROVE  \E a \in PadsOf(s) :
                        /\ swiped'[s] = Code(a)
                        /\ ~last[Other(a)] /\ last'[Other(a)]
                        /\ age'[a] \in 1..Timeout
    OBVIOUS
  <2>1. PICK gap \in 1..MaxGap : \E reading : Poll(gap, reading)
    BY DEF Next
  <2> DEFINE a == first[s]
             time == Advance(now, gap)
  <2>2. swiped'[s] = Code(a) /\ Completes(s, last', time)
    BY <2>1, PollSide
  <2>3. /\ a \in PadsOf(s) /\ Touched(last, s)
        /\ age[a] <= Elapsed(now, since[s]) /\ Elapsed(now, since[s]) <= Timeout
    BY <2>2 DEF Completes, TouchInv, PendingInv
  <2>4. ~last[Other(a)] /\ last'[Other(a)] /\ Elapsed(time, since[s]) <= Timeout
    BY <2>2 DEF Completes, Pressed, InWindow
  <2>5. last[a]
    BY <2>3, <2>4, SidePads DEF Touched
  <2>6. age'[a] = Later(age[a], gap) /\ age[a] \in 0..(Timeout + 1)
    BY <2>1, <2>3, <2>5, SidePads, PollSide DEF Pressed, TouchInv, TypeOK
  <2>7. Elapsed(time, since[s]) = Elapsed(now, since[s]) + gap
        /\ Elapsed(now, since[s]) \in Nat
    BY <2>3, Clock DEF TouchInv, TypeOK
  <2>8. age'[a] \in 1..Timeout
    BY <2>3, <2>4, <2>6, <2>7, TimeAssumption DEF Later
  <2> QED
    BY <2>2, <2>3, <2>4, <2>8
<1> QED
  BY <1>1, TouchInvariant, PTL DEF Spec, SwipesAreGenuine

\* No swipe that starts with one pad alone is missed.
THEOREM ReportedSwipes == Spec => SwipesAreReported
<1> DEFINE Reported ==
      \A s \in Sides :
        PublishSwipe /\ alone[s] # None /\ last'[Other(alone[s])]
          /\ age'[alone[s]] <= Timeout => swiped'[s] = Code(alone[s])
<1>1. TouchInv /\ [Next]_vars => [Reported]_vars
  <2> SUFFICES ASSUME TouchInv, Next, NEW s \in Sides, PublishSwipe,
                      alone[s] # None, last'[Other(alone[s])],
                      age'[alone[s]] <= Timeout
               PROVE  swiped'[s] = Code(alone[s])
    OBVIOUS
  <2>1. PICK gap \in 1..MaxGap : \E reading : Poll(gap, reading)
    BY DEF Next
  <2> DEFINE a == alone[s]
             time == Advance(now, gap)
  <2>2. /\ a \in PadsOf(s) /\ last[a] /\ ~last[Other(a)]
        /\ \/ first[s] = a /\ age[a] = Elapsed(now, since[s])
           \/ age[a] > Timeout
    BY DEF TouchInv, AloneInv
  <2>3. age'[a] = Later(age[a], gap) /\ age[a] \in 0..(Timeout + 1)
    BY <2>1, <2>2, SidePads, PollSide DEF Pressed, TouchInv, TypeOK
  <2>4. age[a] + gap <= Timeout
    BY <2>3, TimeAssumption DEF Later
  <2>5. /\ first[s] = a
        /\ Elapsed(time, since[s]) = age[a] + gap
    BY <2>2, <2>3, <2>4, Clock, TimeAssumption DEF TouchInv, TypeOK
  <2>6. Completes(s, last', time)
    BY <2>2, <2>4, <2>5 DEF Completes, Pressed, InWindow
  <2> QED
    BY <2>1, <2>5, <2>6, PollSide
<1> QED
  BY <1>1, TouchInvariant, PTL DEF Spec, SwipesAreReported
=============================================================================
