---------------------------- MODULE PyramidTouch ----------------------------
(***************************************************************************)
(* The touch component (src/components/pyramidtouch/pyramidtouch.cpp):      *)
(* update() polls four pads over I2C, any of the reads may fail, and        *)
(* handle_swipe_detection_() looks for two presses on one side within       *)
(* swipe_timeout_ms_ of millis(), a clock that wraps around.                *)
(*                                                                          *)
(* One poll is one action: it runs on the main thread without a break.  The *)
(* environment chooses what each read returns and how long after the last   *)
(* poll this one comes.                                                     *)
(***************************************************************************)
EXTENDS Naturals

CONSTANTS
    Word,          \* 2^32: millis() counts modulo this
    Timeout,       \* swipe_timeout_ms_
    MaxGap,        \* bound: the longest time between two polls
    PublishSwipe,  \* publish_swipe_event_ and a swipe sensor is configured
    ReadsFail,     \* may an I2C read fail?
    Fingers        \* bound: the pads that are ever touched

\* The schema limits the timeout to 2000 ms, and polls are not weeks apart.
ASSUME TimeAssumption ==
    /\ {Word, Timeout, MaxGap} \subseteq Nat
    /\ MaxGap > 0
    /\ Timeout + MaxGap < Word
Pads == 1..4

ASSUME SettingAssumption ==
    /\ {PublishSwipe, ReadsFail} \subseteq BOOLEAN
    /\ Fingers \subseteq Pads

Sides == {"left", "right"}
None == 0

\* The pad the code looks at first, and the other one, on each side.
Lead(s) == IF s = "left" THEN 1 ELSE 3
Other(p) == IF p \in {1, 3} THEN p + 1 ELSE p - 1
PadsOf(s) == {Lead(s), Other(Lead(s))}

\* SwipeEventCode of the swipe that starts at pad p: LEFT_UP, LEFT_DOWN,
\* RIGHT_DOWN, RIGHT_UP.
Code(p) == <<1, 2, 4, 3>>[p]

VARIABLES
    now,     \* millis() at the last poll
    last,    \* last_state_
    first,   \* left_swipe_first_ and right_swipe_first_
    since,   \* left_swipe_time_ms_ and right_swipe_time_ms_
    shown,   \* what the touch sensors have published last
    swiped,  \* the event the last poll published for each side, or None
    age,     \* history: real time since the last press of each pad
    alone    \* history: the pad that is the only one touched since its side was at rest

codeVars == <<now, last, first, since, shown, swiped>>
historyVars == <<age, alone>>
vars == <<codeVars, historyVars>>

-----------------------------------------------------------------------------
\* Mutant: the clock is not a 32-bit word.
AdvanceUnbounded(time, gap) == time + gap

Advance(time, gap) == IF time + gap < Word THEN time + gap ELSE time + gap - Word

\* Mutant: the difference does not wrap; 0 when the clock has.
ElapsedSaturating(time, earlier) ==
    IF earlier <= time THEN time - earlier ELSE 0

\* time - earlier in unsigned arithmetic.
Elapsed(time, earlier) ==
    IF earlier <= time THEN time - earlier ELSE Word - (earlier - time)

Later(t, gap) == IF t + gap <= Timeout THEN t + gap ELSE Timeout + 1

Init ==
    /\ now = 0
    /\ last = [p \in Pads |-> FALSE] /\ shown = [p \in Pads |-> FALSE]
    /\ first = [s \in Sides |-> None] /\ since = [s \in Sides |-> 0]
    /\ swiped = [s \in Sides |-> None]
    /\ age = [p \in Pads |-> Timeout + 1] /\ alone = [s \in Sides |-> None]

-----------------------------------------------------------------------------
(* One poll: touch[p] says that pad p was read, and read as pressed.        *)

Pressed(touch, p) == touch[p] /\ ~last[p]
Touched(touch, s) == \E p \in PadsOf(s) : touch[p]

\* Mutant: the window is open for less than the timeout.
InWindowStrict(s, time) == Elapsed(time, since[s]) < Timeout

InWindow(s, time) == Elapsed(time, since[s]) <= Timeout

\* A press on a side without a pending one; of two, the lead pad's counts.
Opens(s, touch) == first[s] = None /\ \E p \in PadsOf(s) : Pressed(touch, p)
Opener(s, touch) == IF Pressed(touch, Lead(s)) THEN Lead(s) ELSE Other(Lead(s))

\* The press of the other pad within the window.
Completes(s, touch, time) ==
    /\ first[s] # None
    /\ Pressed(touch, Other(first[s]))
    /\ InWindow(s, time)

\* Mutant: a pending press is kept while a pad is touched, however long ago.
KeepsForever(s, touch, time) ==
    first[s] # None /\ ~Completes(s, touch, time) /\ Touched(touch, s)

\* A pending press is dropped when both pads are free or its window is over.
Keeps(s, touch, time) ==
    /\ first[s] # None
    /\ ~Completes(s, touch, time)
    /\ Touched(touch, s)
    /\ InWindow(s, time)

DetectSwipes(touch, time) ==
    /\ first' = [s \in Sides |-> IF Opens(s, touch) THEN Opener(s, touch)
                                 ELSE IF Keeps(s, touch, time) THEN first[s]
                                 ELSE None]
    /\ since' = [s \in Sides |-> IF Opens(s, touch) THEN time ELSE since[s]]
    /\ swiped' = [s \in Sides |->
                    IF PublishSwipe /\ Completes(s, touch, time)
                    THEN Code(first[s]) ELSE None]

Remembered(touch, gap) ==
    /\ age' = [p \in Pads |-> IF Pressed(touch, p) THEN 0 ELSE Later(age[p], gap)]
    /\ alone' = [s \in Sides |->
         LET a == IF Touched(last, s) THEN alone[s] ELSE Opener(s, touch)
         IN IF a # None /\ touch[a] /\ ~touch[Other(a)] THEN a ELSE None]

\* A read that fails leaves its pad as if free, and its sensor as it was.
Poll(gap, reading) ==
    LET touch == [p \in Pads |-> reading[p] = "down"]
        time == Advance(now, gap)
    IN /\ now' = time
       /\ shown' = [p \in Pads |->
                      IF reading[p] = "failed" THEN shown[p] ELSE touch[p]]
       /\ DetectSwipes(touch, time)
       /\ last' = touch
       /\ Remembered(touch, gap)

Readings == {"up", "down"} \cup (IF ReadsFail THEN {"failed"} ELSE {})

Next ==
    \E gap \in 1..MaxGap, reading \in [Fingers -> Readings] :
      Poll(gap, [p \in Pads |-> IF p \in Fingers THEN reading[p] ELSE "up"])

Spec == Init /\ [][Next]_vars

-----------------------------------------------------------------------------
(* Properties.                                                              *)

\* Every variable keeps its type; the clock is a 32-bit word.
TypeOK ==
    /\ now \in 0..(Word - 1)
    /\ last \in [Pads -> BOOLEAN] /\ shown \in [Pads -> BOOLEAN]
    /\ first \in [Sides -> Pads \cup {None}]
    /\ since \in [Sides -> 0..(Word - 1)]
    /\ swiped \in [Sides -> Pads \cup {None}]
    /\ age \in [Pads -> 0..(Timeout + 1)]
    /\ alone \in [Sides -> Pads \cup {None}]

\* A pending press is one of its own side, some pad there is still touched, and
\* the difference of the two clock readings is real time within the window, also
\* after the clock has wrapped around.
PendingInv ==
    \A s \in Sides : first[s] # None =>
      /\ first[s] \in PadsOf(s)
      /\ Touched(last, s)
      /\ age[first[s]] <= Elapsed(now, since[s])
      /\ Elapsed(now, since[s]) <= Timeout

\* A pad that opened a touch and is still alone is pending, or too old.
AloneInv ==
    \A s \in Sides : alone[s] # None =>
      /\ alone[s] \in PadsOf(s) /\ last[alone[s]] /\ ~last[Other(alone[s])]
      /\ \/ first[s] = alone[s] /\ age[alone[s]] = Elapsed(now, since[s])
         \/ age[alone[s]] > Timeout

\* pyramidtouch.h:20-23: "Touch1 -> Touch2" and so on.  A swipe is published only
\* by the press of its second pad, and its first pad was pressed in an earlier
\* poll, at most the timeout of real time ago.
SwipesAreGenuine ==
    [][\A s \in Sides : swiped'[s] # None =>
         \E a \in PadsOf(s) :
           /\ swiped'[s] = Code(a)
           /\ ~last[Other(a)] /\ last'[Other(a)]
           /\ age'[a] \in 1..Timeout]_vars

\* A swipe is not missed: when one pad alone is touched and the other one of its
\* side follows within the timeout, its code is published.
SwipesAreReported ==
    [][\A s \in Sides :
         LET a == alone[s]
         IN PublishSwipe /\ a # None /\ last'[Other(a)] /\ age'[a] <= Timeout
              => swiped'[s] = Code(a)]_vars
=============================================================================
