-------------------------- MODULE PyramidRGBProofs --------------------------
(***************************************************************************)
(* Theorems on PyramidRGB, for every number of LEDs that the controller's   *)
(* address map has room for.                                                *)
(***************************************************************************)
EXTENDS PyramidRGB, TLAPS

\* A quotient below 256 is a byte.
LEMMA QuotientByte ==
    ASSUME NEW p \in Int, NEW q \in Int, 0 < q, 0 <= p, p < 256 * q
    PROVE  p \div q \in 0..255
BY Z3

LEMMA RoundedByte ==
    ASSUME NEW num \in Int, NEW den \in Int, 0 < num, num < den
    PROVE  Rounded(num, den) \in Byte
<1> DEFINE a == 510 * num + den
           b == 2 * den
<1>1. a \in Int /\ b \in Int /\ 0 < b /\ 0 <= a /\ a < 256 * b
  OBVIOUS
<1> HIDE DEF a, b
<1>3. a \div b \in Byte
  BY <1>1, QuotientByte DEF Byte
<1> QED
  BY <1>3 DEF a, b, Rounded

\* Whatever the level and the currents, the value written is a byte.
LEMMA MapLevelByte ==
    ASSUME NEW colour \in Colours, NEW level \in Int
    PROVE  MapLevel(colour, level) \in Byte
<1>1. ASSUME NEW num \in Int, NEW den \in Int PROVE Scaled(num, den) \in Byte
  <2>1. num > 0 /\ num < den => Rounded(num, den) \in Byte
    BY RoundedByte
  <2> QED
    BY <2>1 DEF Scaled, Byte
<1>2. CASE level > 0
  <2> DEFINE x == Curve[IF level >= Full THEN Full ELSE level]
  <2>1. x \in Int /\ Full \in Int /\ RefCurrent \in Int /\ Current[colour] \in Int
    <3>1. (IF level >= Full THEN Full ELSE level) \in 0..Full
      BY <1>2, RgbConfigAssumption
    <3> QED
      BY <3>1, RgbConfigAssumption
  <2>2. x * Current[colour] \in Int /\ Full * RefCurrent \in Int
    <3> HIDE DEF x
    <3> QED
      BY <2>1
  <2>3. MapLevel(colour, level) = IF RefCurrent > 0
          THEN Scaled(x * Current[colour], Full * RefCurrent) ELSE Scaled(x, Full)
    BY <1>2 DEF MapLevel
  <2> QED
    BY <1>1, <2>1, <2>2, <2>3
<1>3. CASE level <= 0
  BY <1>3 DEF MapLevel, Byte
<1> QED
  BY <1>2, <1>3

\* Distinct LEDs have distinct registers, which are LED registers.
LEMMA RegistersApart ==
    ASSUME NEW ch \in Channels, NEW other \in Channels,
           NEW i \in 0..(NumLeds - 1), NEW j \in 0..(NumLeds - 1)
    PROVE  /\ Register(ch, i) \in LedRegisters
           /\ Register(ch, i) = Register(other, j) => ch = other /\ i = j
<1>1. /\ HardwareIndex(ch, i) \in 0..6 /\ HardwareIndex(other, j) \in 0..6
      /\ (ch = other /\ HardwareIndex(ch, i) = HardwareIndex(other, j) => i = j)
  BY RgbConfigAssumption DEF HardwareIndex, Channels
<1>2. ASSUME NEW c \in Channels, NEW h \in 0..6
      PROVE  \E k \in 0..63 : Base(c) + h * 4 = 4 * k
  BY DEF Base, Channels
<1>3. ASSUME NEW c \in Channels, NEW d \in Channels, NEW h \in 0..6, NEW k \in 0..6,
             Base(c) + h * 4 = Base(d) + k * 4
      PROVE  c = d /\ h = k
  BY <1>3 DEF Base, Channels
<1> QED
  BY <1>1, <1>2, <1>3 DEF Register, LedRegisters

\* The registers the code reaches for a channel are those of the documented layout.
LEMMA LayoutReached ==
    ASSUME NEW ch \in Channels
    PROVE  \A r \in LayoutRegisters(ch) : \E i \in 0..(NumLeds - 1) : r = Register(ch, i)
<1> SUFFICES ASSUME NEW k \in 0..(NumLeds - 1)
             PROVE  \E i \in 0..(NumLeds - 1) : LayoutFirst[ch] + 4 * k = Register(ch, i)
  BY DEF LayoutRegisters
<1> DEFINE i == IF ch \in {0, 1} THEN NumLeds - 1 - k ELSE k
<1>1. i \in 0..(NumLeds - 1) /\ HardwareIndex(ch, i) = k
  BY RgbConfigAssumption DEF HardwareIndex, Channels
<1>2. LayoutFirst[ch] = Base(ch) /\ Base(ch) \in 0..124
  BY DEF LayoutFirst, Base, Channels
<1>3. Base(ch) + k * 4 = LayoutFirst[ch] + 4 * k
  BY <1>2
<1> QED
  BY <1>1, <1>3 DEF Register

-----------------------------------------------------------------------------
(* The inductive invariant.                                                 *)

\* What the call that runs has done, and that no other channel it is still to
\* paint counts as reported.
JobInv ==
    ~Idle =>
      /\ job.c \in ready /\ Owner[job.ch] = job.c /\ job.ch \notin reported
      /\ copy[job.c][job.ch] = asked[job.ch]
      /\ \A o \in Channels : job.rest = <<o>> =>
           o # job.ch /\ o \notin reported /\ Owner[o] = job.c /\ asked[o] = asked[job.ch]
      /\ job.ok => \A j \in 0..(NumLeds - 1) :
                     j < job.i => Shows(Register(job.ch, j), asked[job.ch])
      /\ job.c \in clean => job.ok

\* The copies hold what was asked for, but for a channel still to be painted.
CopyInv ==
    \A ch \in Channels : copy[Owner[ch]][ch] = asked[ch] \/ (~Idle /\ job.rest = <<ch>>)

\* A reported channel's LEDs show its colour, and its component is set up.
ShownInv ==
    \A ch \in reported :
      /\ Owner[ch] \in ready
      /\ \A i \in 0..(NumLeds - 1) : Shows(Register(ch, i), asked[ch])

\* The strip of a component that has only been set up is painted or about to be.
CleanInv ==
    \A c \in clean : \A k \in 1..2 : InitialWhite[c] > 0 =>
      LET ch == StripChannels(InitialStrip[c])[k]
      IN /\ asked[ch] = White(InitialWhite[c])
         /\ \/ ch \in reported
            \/ ~Idle /\ job.c = c /\ (ch = job.ch \/ job.rest = <<ch>>)

RgbInv == TypeOK /\ JobInv /\ CopyInv /\ ShownInv /\ CleanInv

\* The two channels of a strip are distinct channels, those of a component that
\* paints at boot its own.
LEMMA BootOwn ==
    ASSUME NEW c \in Components
    PROVE  LET chs == StripChannels(InitialStrip[c])
           IN /\ chs[1] \in Channels /\ chs[2] \in Channels /\ chs[1] # chs[2]
              /\ InitialWhite[c] > 0 => Owner[chs[1]] = c /\ Owner[chs[2]] = c
<1>1. InitialStrip[c] \in Strips /\ InitialStrip[c] \in {1, 2}
  BY RgbConfigAssumption DEF Strips
<1>2. /\ StripChannels(InitialStrip[c])[1] = (IF InitialStrip[c] = 1 THEN 0 ELSE 2)
      /\ StripChannels(InitialStrip[c])[2] = (IF InitialStrip[c] = 1 THEN 1 ELSE 3)
  BY DEF StripChannels
<1> QED
  BY <1>1, <1>2, OwnerAssumption DEF Channels

\* A colour of one level is a colour, and so is one with a component replaced.
LEMMA WhiteColour == ASSUME NEW level \in Byte PROVE White(level) \in Colour
BY DEF White, Colour

LEMMA ComponentColour ==
    ASSUME NEW old \in Colour, NEW k \in Colours, NEW v \in Byte
    PROVE  SetComponent(old, k, v) \in Colour /\ SetComponent(old, k, v) = [old EXCEPT ![k] = v]
BY DEF SetComponent, Colour

\* A write of all bytes leaves the colour; any write leaves bytes.
LEMMA OverwrittenBytes ==
    ASSUME NEW colour \in Colour, NEW old \in LedBytes, NEW n \in 0..3
    PROVE  /\ Overwritten(old, Bytes(colour), n) \in LedBytes
           /\ Overwritten(old, Bytes(colour), 3) = Bytes(colour)
<1>1. colour["B"] \in Byte /\ colour["G"] \in Byte /\ colour["R"] \in Byte
  BY DEF Colour, Colours
<1>2. old[1] \in Byte /\ old[2] \in Byte /\ old[3] \in Byte
  BY DEF LedBytes
<1>3. /\ Bytes(colour)[1] = colour["B"] /\ Bytes(colour)[2] = colour["G"]
      /\ Bytes(colour)[3] = colour["R"]
  BY DEF Bytes
<1>4. Overwritten(old, Bytes(colour), n) \in LedBytes
  BY <1>1, <1>2, <1>3 DEF Overwritten, LedBytes
<1>5. Overwritten(old, Bytes(colour), 3) = Bytes(colour)
  BY <1>3 DEF Overwritten, Bytes
<1> QED
  BY <1>4, <1>5

\* A strip's brightness stays a byte.
LEMMA BrightnessByte ==
    ASSUME brightness \in [Strips -> Byte], NEW strip \in Nat, NEW value \in Byte,
           SetBrightness(strip, value)
    PROVE  brightness' \in [Strips -> Byte]
<1> DEFINE v == IF value > 100 THEN 100 ELSE value
<1>1. v \in 0..100
  BY DEF Byte
<1>2. (v * 255) \div 100 \in Byte
  <2>1. v * 255 \in Int /\ 0 <= v * 255 /\ v * 255 < 256 * 100
    BY <1>1
  <2> HIDE DEF v
  <2> QED
    BY <2>1, QuotientByte DEF Byte
<1> QED
  BY <1>2 DEF SetBrightness, Strips

-----------------------------------------------------------------------------
(* The steps.                                                               *)

\* What a call has become is a job.
Rests == {<<>>} \cup {<<ch>> : ch \in Channels}

LEMMA JobType ==
    ASSUME NEW c \in Components, NEW ch \in Channels, NEW i \in 0..(NumLeds - 1),
           NEW ok \in BOOLEAN, NEW rest \in Rests
    PROVE  LET r == Call(c, ch, i, ok, rest)
           IN /\ r \in Jobs /\ r # NoJob /\ r.c = c /\ r.ch = ch /\ r.i = i
              /\ r.ok = ok /\ r.rest = rest
<1> DEFINE r == Call(c, ch, i, ok, rest)
<1>1. r \in Jobs
  BY DEF Jobs, Rests, Call
<1>2. r.ch # NoJob.ch
  BY DEF NoJob, Channels, Call
<1> QED
  BY <1>1, <1>2 DEF Call

\* So is a call that begins.
LEMMA JobStart ==
    ASSUME NEW c \in Components, NEW ch \in Channels, NEW rest \in Rests
    PROVE  LET r == Call(c, ch, 0, TRUE, rest)
           IN /\ r \in Jobs /\ r # NoJob /\ r.c = c /\ r.ch = ch /\ r.i = 0
              /\ r.ok = TRUE /\ r.rest = rest
<1> DEFINE r == Call(c, ch, 0, TRUE, rest)
<1>1. 0 \in 0..(NumLeds - 1)
  BY RgbConfigAssumption
<1>2. r \in Jobs
  BY <1>1 DEF Jobs, Rests, Call
<1>3. r.ch # NoJob.ch
  BY DEF NoJob, Channels, Call
<1> QED
  BY <1>2, <1>3 DEF Call

\* Starting to paint one channel, for an output or a lambda.
LEMMA PaintKeeps ==
    ASSUME RgbInv, Idle, ready = Components, NEW ch \in Channels, NEW colour \in Colour,
           Paint(Owner[ch], ch, colour, <<>>),
           asked' = [asked EXCEPT ![ch] = colour],
           clean' = clean \ {Owner[ch]},
           UNCHANGED <<ready, led, brightness>>
    PROVE  RgbInv'
<1> DEFINE c == Owner[ch]
<1>1. c \in Components /\ TypeOK
  BY OwnerAssumption DEF RgbInv
<1>2. /\ job' = Call(c, ch, 0, TRUE, <<>>)
      /\ copy' = [copy EXCEPT ![c][ch] = colour] /\ reported' = reported \ {ch}
  BY DEF Paint
<1>3. job' \in Jobs /\ job' # NoJob
  <2>1. <<>> \in Rests
    BY DEF Rests
  <2> QED
    BY <1>1, <1>2, <2>1, JobStart DEF Call
<1>4. TypeOK'
  BY <1>1, <1>2, <1>3 DEF TypeOK
<1>5. /\ job'.c = c /\ job'.ch = ch /\ job'.i = 0 /\ job'.ok = TRUE /\ job'.rest = <<>>
  BY <1>2 DEF Call
<1>6. JobInv'
  BY <1>1, <1>2, <1>5 DEF JobInv, TypeOK, Call
<1>7. CopyInv'
  <2> SUFFICES ASSUME NEW o \in Channels PROVE copy'[Owner[o]][o] = asked'[o]
    BY DEF CopyInv
  <2>1. copy[Owner[o]][o] = asked[o]
    BY DEF RgbInv, CopyInv, Idle
  <2> QED
    BY <1>1, <1>2, <2>1, OwnerAssumption DEF TypeOK
<1>8. ShownInv'
  BY <1>1, <1>2 DEF RgbInv, ShownInv, Shows, TypeOK
<1>9. CleanInv'
  <2> SUFFICES ASSUME NEW d \in clean', NEW k \in 1..2, InitialWhite[d] > 0
               PROVE  LET o == StripChannels(InitialStrip[d])[k]
                      IN asked'[o] = White(InitialWhite[d]) /\ o \in reported'
    BY DEF CleanInv
  <2> DEFINE o == StripChannels(InitialStrip[d])[k]
  <2>1. d \in Components /\ d # c
    BY <1>1 DEF TypeOK
  <2>2. o \in Channels /\ Owner[o] = d
    BY <2>1, BootOwn
  <2>3. asked[o] = White(InitialWhite[d]) /\ o \in reported
    BY DEF RgbInv, CleanInv
  <2> QED
    BY <1>1, <1>2, <2>1, <2>2, <2>3 DEF TypeOK
<1> QED
  BY <1>4, <1>6, <1>7, <1>8, <1>9 DEF RgbInv

\* setup() of one component.
LEMMA SetupKeeps ==
    ASSUME RgbInv, NEW c \in Components, Setup(c)
    PROVE  RgbInv'
<1> DEFINE chs == StripChannels(InitialStrip[c])
           white == White(InitialWhite[c])
<1>1. /\ TypeOK /\ Idle /\ c \notin ready /\ ready' = ready \cup {c}
      /\ clean' = clean \cup {c} /\ led' = led
  BY DEF RgbInv, Setup
<1>2. brightness' \in [Strips -> Byte]
  <2>1. InitialBrightness[c] \in 0..100 /\ InitialStrip[c] \in Strips
    BY RgbConfigAssumption
  <2>2. InitialBrightness[c] \in Byte /\ InitialStrip[c] \in Nat
    BY <2>1 DEF Byte, Strips
  <2> QED
    BY <1>1, <2>2, BrightnessByte DEF Setup, TypeOK
<1>3. /\ white \in Colour /\ chs[1] \in Channels /\ chs[2] \in Channels /\ chs[1] # chs[2]
      /\ InitialWhite[c] > 0 => Owner[chs[1]] = c /\ Owner[chs[2]] = c
  BY BootOwn, WhiteColour, RgbConfigAssumption
<1>4. CASE ~(InitialWhite[c] > 0)
  <2>1. UNCHANGED <<copy, job, asked, reported>>
    BY <1>4 DEF Setup
  <2>2. TypeOK' /\ JobInv' /\ CopyInv'
    BY <1>1, <1>2, <2>1 DEF RgbInv, TypeOK, JobInv, CopyInv, Idle
  <2>3. ShownInv'
    BY <1>1, <2>1 DEF RgbInv, ShownInv, Shows
  <2>4. CleanInv'
    BY <1>1, <1>4, <2>1 DEF RgbInv, CleanInv, Idle
  <2> QED
    BY <2>2, <2>3, <2>4 DEF RgbInv
<1>5. CASE InitialWhite[c] > 0
  <2>1. /\ job' = Call(c, chs[1], 0, TRUE, <<chs[2]>>)
        /\ copy' = [copy EXCEPT ![c][chs[1]] = white] /\ reported' = reported \ {chs[1]}
        /\ asked' = [ch \in Channels |->
                       IF ch \in {chs[1], chs[2]} THEN white ELSE asked[ch]]
    BY <1>5 DEF Setup, Paint, BootChannels
  <2> HIDE DEF chs, white
  <2>2. job' \in Jobs /\ job' # NoJob
    <3>1. <<chs[2]>> \in Rests
      BY <1>3 DEF Rests
    <3> QED
      BY <1>3, <2>1, <3>1, JobStart DEF Call
  <2>3. /\ job'.c = c /\ job'.ch = chs[1] /\ job'.i = 0 /\ job'.ok = TRUE
        /\ job'.rest = <<chs[2]>>
    BY <2>1 DEF Call
  <2>4. TypeOK'
    <3>1. copy' \in [Components -> [Channels -> Colour]]
      BY <1>1, <1>3, <2>1 DEF TypeOK
    <3>2. asked' \in [Channels -> Colour]
      BY <1>1, <1>3, <2>1 DEF TypeOK
    <3> QED
      BY <1>1, <1>2, <2>1, <2>2, <3>1, <3>2 DEF TypeOK
  <2>5. \A ch \in reported : ch # chs[1] /\ ch # chs[2]
    BY <1>1, <1>3, <1>5 DEF RgbInv, ShownInv
  <2>6. JobInv'
    <3>1. copy'[c][chs[1]] = white /\ asked'[chs[1]] = white /\ asked'[chs[2]] = white
      BY <1>1, <1>3, <2>1 DEF TypeOK
    <3>2. \A o : <<chs[2]>> = <<o>> => o = chs[2]
      OBVIOUS
    <3>3. ASSUME NEW o \in Channels, job'.rest = <<o>>
          PROVE  o # chs[1] /\ o \notin reported' /\ Owner[o] = c /\ asked'[o] = asked'[chs[1]]
      <4>1. o = chs[2]
        BY <2>3, <3>2, <3>3
      <4> QED
        BY <1>3, <1>5, <2>1, <2>5, <3>1, <4>1
    <3> QED
      BY <1>1, <1>3, <1>5, <2>1, <2>3, <3>1, <3>3, RgbConfigAssumption DEF JobInv, Call
  <2>7. CopyInv'
    <3> SUFFICES ASSUME NEW o \in Channels, o # chs[2] PROVE copy'[Owner[o]][o] = asked'[o]
      BY <2>2, <2>3 DEF CopyInv, Idle, NoJob
    <3>1. copy[Owner[o]][o] = asked[o]
      BY <1>1 DEF RgbInv, CopyInv
    <3> QED
      BY <1>1, <1>3, <1>5, <2>1, <3>1, OwnerAssumption DEF TypeOK
  <2>8. ShownInv'
    <3> SUFFICES ASSUME NEW ch \in reported'
                 PROVE  Owner[ch] \in ready' /\ \A i \in 0..(NumLeds - 1) :
                          led'[Register(ch, i)] = Bytes(asked'[ch])
      BY DEF ShownInv, Shows
    <3>1. ch \in reported /\ ch \in Channels /\ asked'[ch] = asked[ch]
      BY <1>1, <2>1, <2>5 DEF TypeOK
    <3> QED
      BY <1>1, <3>1 DEF RgbInv, ShownInv, Shows
  <2>9. CleanInv'
    <3> SUFFICES ASSUME NEW d \in clean', NEW k \in 1..2, InitialWhite[d] > 0
                 PROVE  LET o == StripChannels(InitialStrip[d])[k]
                        IN /\ asked'[o] = White(InitialWhite[d])
                           /\ \/ o \in reported'
                              \/ job'.c = d /\ (o = job'.ch \/ job'.rest = <<o>>)
      BY <2>2 DEF CleanInv, Idle
    <3>1. CASE d = c
      <4>1. asked'[chs[1]] = white /\ asked'[chs[2]] = white
        BY <1>3, <2>1
      <4>2. k = 1 \/ k = 2
        OBVIOUS
      <4> QED
        BY <2>3, <3>1, <4>1, <4>2 DEF chs, white
    <3>2. CASE d # c
      <4> DEFINE o == StripChannels(InitialStrip[d])[k]
      <4>1. d \in clean /\ d \in Components
        BY <1>1, <3>2 DEF TypeOK
      <4>2. o \in Channels /\ Owner[o] = d
        BY <4>1, BootOwn
      <4>3. asked[o] = White(InitialWhite[d]) /\ o \in reported
        BY <1>1, <4>1 DEF RgbInv, CleanInv
      <4> HIDE DEF o
      <4>4. asked'[o] = asked[o] /\ o \in reported'
        BY <1>3, <1>5, <2>1, <3>2, <4>2, <4>3
      <4> QED
        BY <4>3, <4>4 DEF o
    <3> QED
      BY <3>1, <3>2
  <2> QED
    BY <2>4, <2>6, <2>7, <2>8, <2>9 DEF RgbInv
<1> QED
  BY <1>4, <1>5

\* What one write does to the LEDs: only the register of the LED at hand
\* changes, and a write that succeeded leaves it showing the colour.
LEMMA WriteEffect ==
    ASSUME RgbInv, NEW ok \in BOOLEAN, NEW n \in 0..3, WriteLed(ok, n)
    PROVE  /\ job \in Jobs /\ ~Idle
           /\ led' \in [LedRegisters -> LedBytes]
           /\ asked' = asked
           /\ ok => led'[Register(job.ch, job.i)] = Bytes(asked[job.ch])
           /\ \A ch \in Channels : \A j \in 0..(NumLeds - 1) :
                ch # job.ch \/ j # job.i => led'[Register(ch, j)] = led[Register(ch, j)]
<1>1. /\ job \in Jobs /\ ~Idle /\ TypeOK /\ copy[job.c][job.ch] = asked[job.ch]
      /\ asked' = asked /\ (ok => n = 3)
  BY DEF WriteLed, RgbInv, TypeOK, Idle, JobInv
<1>2. /\ job.ch \in Channels /\ job.i \in 0..(NumLeds - 1) /\ asked[job.ch] \in Colour
  BY <1>1 DEF Jobs, TypeOK
<1> DEFINE r == Register(job.ch, job.i)
           new == Overwritten(led[r], Bytes(asked[job.ch]), n)
<1>3. r \in LedRegisters
  BY <1>2, RegistersApart
<1>4. new \in LedBytes /\ (n = 3 => new = Bytes(asked[job.ch]))
  BY <1>1, <1>2, <1>3, OverwrittenBytes DEF TypeOK
<1>5. led' = [led EXCEPT ![r] = new]
  BY <1>1 DEF WriteLed
<1> HIDE DEF new
<1>6. led' \in [LedRegisters -> LedBytes] /\ led'[r] = new
  BY <1>1, <1>3, <1>4, <1>5 DEF TypeOK
<1>7. \A ch \in Channels : \A j \in 0..(NumLeds - 1) :
        ch # job.ch \/ j # job.i => led'[Register(ch, j)] = led[Register(ch, j)]
  <2> SUFFICES ASSUME NEW ch \in Channels, NEW j \in 0..(NumLeds - 1),
                      ch # job.ch \/ j # job.i
               PROVE  led'[Register(ch, j)] = led[Register(ch, j)]
    OBVIOUS
  <2>1. Register(ch, j) \in LedRegisters /\ Register(ch, j) # r
    BY <1>2, RegistersApart
  <2> QED
    BY <1>1, <1>5, <2>1 DEF TypeOK
<1>8. ok => led'[r] = Bytes(asked[job.ch])
  BY <1>1, <1>4, <1>6
<1> QED
  BY <1>1, <1>6, <1>7, <1>8

\* The three ways a write leaves its call.
Continue(ok) == /\ job.i # NumLeds - 1
                /\ job' = Call(job.c, job.ch, job.i + 1, job.ok /\ ok, job.rest)
                /\ copy' = copy /\ reported' = reported
GoOn(ok, o) == /\ job.i = NumLeds - 1 /\ job.rest = <<o>>
               /\ job' = Call(job.c, o, 0, TRUE, <<>>)
               /\ copy' = [copy EXCEPT ![job.c][o] = asked[job.ch]]
               /\ reported' = (IF job.ok /\ ok THEN reported \cup {job.ch} ELSE reported) \ {o}
Return(ok) == /\ job.i = NumLeds - 1 /\ job.rest = <<>>
              /\ job' = NoJob /\ copy' = copy
              /\ reported' = IF job.ok /\ ok THEN reported \cup {job.ch} ELSE reported

LEMMA WriteWays ==
    ASSUME RgbInv, NEW ok \in BOOLEAN, NEW n \in 0..3, WriteLed(ok, n)
    PROVE  Continue(ok) \/ Return(ok) \/ \E o \in Channels : GoOn(ok, o)
<1>1. /\ job \in Jobs /\ copy[job.c][job.ch] = asked[job.ch]
  BY DEF WriteLed, RgbInv, TypeOK, Idle, JobInv
<1>2. job.rest = <<>> \/ \E o \in Channels : job.rest = <<o>>
  BY <1>1 DEF Jobs
<1>3. CASE job.i # NumLeds - 1
  BY <1>3 DEF WriteLed, Continue
<1>4. CASE job.i = NumLeds - 1 /\ job.rest = <<>>
  BY <1>4 DEF WriteLed, Return
<1>5. ASSUME NEW o \in Channels, job.i = NumLeds - 1, job.rest = <<o>>
      PROVE  GoOn(ok, o)
  <2>1. job.rest # <<>> /\ job.rest[1] = o
    BY <1>5
  <2> QED
    BY <1>1, <1>5, <2>1 DEF WriteLed, GoOn
<1> QED
  BY <1>2, <1>3, <1>4, <1>5

\* One turn of the loop keeps the invariant, whether it goes on, returns, or
\* setup() turns to the second channel.
LEMMA WriteKeeps ==
    ASSUME RgbInv, NEW ok \in BOOLEAN, NEW n \in 0..3, WriteLed(ok, n)
    PROVE  RgbInv'
<1>1. /\ job \in Jobs /\ ~Idle /\ led' \in [LedRegisters -> LedBytes]
      /\ asked' = asked
      /\ ok => led'[Register(job.ch, job.i)] = Bytes(asked[job.ch])
      /\ \A ch \in Channels : \A j \in 0..(NumLeds - 1) :
           ch # job.ch \/ j # job.i => led'[Register(ch, j)] = led[Register(ch, j)]
  BY WriteEffect
<1>2. /\ job.c \in Components /\ job.ch \in Channels /\ job.i \in 0..(NumLeds - 1)
      /\ job.ok \in BOOLEAN /\ job.rest \in Rests
  BY <1>1 DEF Jobs, Rests
<1>3. /\ ready' = ready /\ brightness' = brightness
      /\ clean' = IF ok THEN clean ELSE clean \ {job.c}
  BY DEF WriteLed
<1>4. /\ TypeOK /\ JobInv /\ CopyInv /\ ShownInv /\ CleanInv
      /\ job.c \in ready /\ Owner[job.ch] = job.c /\ job.ch \notin reported
      /\ copy[job.c][job.ch] = asked[job.ch] /\ asked[job.ch] \in Colour
      /\ job.c \in clean => job.ok
      /\ \A o \in Channels : job.rest = <<o>> =>
           o # job.ch /\ o \notin reported /\ Owner[o] = job.c /\ asked[o] = asked[job.ch]
  BY <1>1, <1>2 DEF RgbInv, JobInv, TypeOK
<1>5. \A ch \in Channels : \A j \in 0..(NumLeds - 1) :
        ch # job.ch => led'[Register(ch, j)] = led[Register(ch, j)]
  BY <1>1
<1>6. job.ok /\ ok => \A j \in 0..(NumLeds - 1) : j <= job.i =>
        led'[Register(job.ch, j)] = Bytes(asked[job.ch])
  <2> SUFFICES ASSUME job.ok, ok, NEW j \in 0..(NumLeds - 1), j <= job.i
               PROVE  led'[Register(job.ch, j)] = Bytes(asked[job.ch])
    OBVIOUS
  <2>1. CASE j = job.i
    BY <1>1, <2>1
  <2>2. CASE j # job.i
    <3>1. j < job.i /\ led[Register(job.ch, j)] = Bytes(asked[job.ch])
      BY <1>1, <1>2, <1>4, <2>2 DEF JobInv, Shows
    <3> QED
      BY <1>1, <1>2, <2>2, <3>1
  <2> QED
    BY <2>1, <2>2
<1>7. \A ch \in reported : ch # job.ch /\ Owner[ch] \in ready
        /\ \A j \in 0..(NumLeds - 1) : led'[Register(ch, j)] = Bytes(asked[ch])
  BY <1>4, <1>5 DEF ShownInv, Shows, TypeOK
<1>8. clean' \subseteq clean /\ (job.c \in clean' => job.ok /\ ok)
  BY <1>3, <1>4
<1>9. \A ch \in reported' : ch \in reported \/ (ch = job.ch /\ job.ok /\ ok
                                                  /\ job.i = NumLeds - 1)
  BY WriteWays DEF Continue, GoOn, Return
<1>10. ShownInv'
  <2> SUFFICES ASSUME NEW ch \in reported'
               PROVE  Owner[ch] \in ready /\ \A j \in 0..(NumLeds - 1) :
                        led'[Register(ch, j)] = Bytes(asked[ch])
    BY <1>1, <1>3 DEF ShownInv, Shows
  <2>1. CASE ch \in reported
    BY <1>7, <2>1
  <2>2. CASE ch = job.ch /\ job.ok /\ ok /\ job.i = NumLeds - 1
    <3>1. Owner[ch] \in ready
      BY <1>4, <2>2
    <3> QED
      BY <1>2, <1>6, <2>2, <3>1, RgbConfigAssumption
  <2> QED
    BY <1>9, <2>1, <2>2
<1>11. CASE Continue(ok)
  <2>1. /\ job' \in Jobs /\ job' # NoJob /\ job'.c = job.c /\ job'.ch = job.ch
        /\ job'.i = job.i + 1 /\ job'.ok = (job.ok /\ ok) /\ job'.rest = job.rest
    <3>1. (job.ok /\ ok) \in BOOLEAN
      OBVIOUS
    <3>2. NumLeds \in Int /\ job.i # NumLeds - 1 /\ job.i \in 0..(NumLeds - 1)
      BY <1>2, <1>11, RgbConfigAssumption DEF Continue
    <3>3. job.i + 1 \in 0..(NumLeds - 1)
      BY <3>2
    <3> QED
      BY <1>2, <1>11, <3>1, <3>3, JobType DEF Continue, Call
  <2>2. copy' = copy /\ reported' = reported
    BY <1>11 DEF Continue
  <2>3. TypeOK'
    BY <1>1, <1>3, <1>4, <1>8, <2>1, <2>2 DEF TypeOK
  <2>4. JobInv'
    <3>1. job'.ok => \A j \in 0..(NumLeds - 1) : j < job'.i =>
            led'[Register(job.ch, j)] = Bytes(asked[job.ch])
      BY <1>2, <1>6, <2>1
    <3> QED
      BY <1>1, <1>3, <1>4, <1>8, <2>1, <2>2, <3>1 DEF JobInv, Shows
  <2>5. CopyInv'
    BY <1>1, <1>4, <2>1, <2>2 DEF CopyInv, Idle
  <2>6. CleanInv'
    BY <1>1, <1>4, <1>8, <2>1, <2>2 DEF CleanInv, Idle
  <2> QED
    BY <1>10, <2>3, <2>4, <2>5, <2>6 DEF RgbInv
<1>12. CASE Return(ok)
  <2>1. /\ job' = NoJob /\ copy' = copy /\ job.rest = <<>>
        /\ reported' = IF job.ok /\ ok THEN reported \cup {job.ch} ELSE reported
    BY <1>12 DEF Return
  <2>2. TypeOK'
    BY <1>1, <1>2, <1>3, <1>4, <1>8, <2>1 DEF TypeOK
  <2>3. JobInv'
    BY <2>1 DEF JobInv, Idle
  <2>4. CopyInv'
    <3>1. \A o : job.rest # <<o>>
      BY <2>1
    <3> QED
      BY <1>1, <1>4, <2>1, <3>1 DEF CopyInv
  <2>5. CleanInv'
    <3>1. \A o : job.rest # <<o>>
      BY <2>1
    <3> QED
      BY <1>1, <1>4, <1>8, <2>1, <3>1 DEF CleanInv
  <2> QED
    BY <1>10, <2>2, <2>3, <2>4, <2>5 DEF RgbInv
<1>13. ASSUME NEW o \in Channels, GoOn(ok, o) PROVE RgbInv'
  <2>1. /\ job.i = NumLeds - 1 /\ job.rest = <<o>>
        /\ copy' = [copy EXCEPT ![job.c][o] = asked[job.ch]]
        /\ reported' = (IF job.ok /\ ok THEN reported \cup {job.ch} ELSE reported) \ {o}
    BY <1>13 DEF GoOn
  <2>2. /\ job' \in Jobs /\ job' # NoJob /\ job'.c = job.c /\ job'.ch = o
        /\ job'.i = 0 /\ job'.ok = TRUE /\ job'.rest = <<>>
    <3>1. <<>> \in Rests
      BY DEF Rests
    <3> QED
      BY <1>2, <1>13, <3>1, JobStart DEF GoOn, Call
  <2>3. o # job.ch /\ o \notin reported /\ Owner[o] = job.c /\ asked[o] = asked[job.ch]
    BY <1>4, <2>1
  <2>4. copy' \in [Components -> [Channels -> Colour]] /\ copy'[job.c][o] = asked[o]
    BY <1>2, <1>4, <2>1, <2>3 DEF TypeOK
  <2>5. TypeOK'
    BY <1>1, <1>2, <1>3, <1>4, <1>8, <2>1, <2>2, <2>4 DEF TypeOK
  <2>6. \A x : <<>> # <<x>>
    OBVIOUS
  <2>7. JobInv'
    BY <1>1, <1>2, <1>3, <1>4, <2>1, <2>2, <2>3, <2>4, <2>6 DEF JobInv
  <2>8. CopyInv'
    <3> SUFFICES ASSUME NEW x \in Channels PROVE copy'[Owner[x]][x] = asked[x]
      BY <1>1 DEF CopyInv
    <3>1. CASE x = o
      BY <2>3, <2>4, <3>1
    <3>2. CASE x # o
      <4>1. copy[Owner[x]][x] = asked[x]
        BY <1>4, <2>1, <3>2 DEF CopyInv
      <4> QED
        BY <1>2, <1>4, <2>1, <3>2, <4>1, OwnerAssumption DEF TypeOK
    <3> QED
      BY <3>1, <3>2
  <2>9. CleanInv'
    <3> SUFFICES ASSUME NEW d \in clean', NEW k \in 1..2, InitialWhite[d] > 0
                 PROVE  LET x == StripChannels(InitialStrip[d])[k]
                        IN /\ asked[x] = White(InitialWhite[d])
                           /\ x \in reported' \/ (job.c = d /\ x = o)
      BY <1>1, <2>2 DEF CleanInv, Idle
    <3> DEFINE x == StripChannels(InitialStrip[d])[k]
    <3>1. d \in clean
      BY <1>8
    <3>2. /\ asked[x] = White(InitialWhite[d])
          /\ x \in reported \/ (job.c = d /\ (x = job.ch \/ job.rest = <<x>>))
      BY <1>4, <3>1 DEF CleanInv
    <3> HIDE DEF x
    <3>3. CASE x \in reported
      BY <2>1, <2>3, <3>2, <3>3 DEF x
    <3>4. CASE job.c = d /\ x = job.ch
      BY <1>8, <2>1, <2>3, <3>2, <3>4 DEF x
    <3>5. CASE job.c = d /\ job.rest = <<x>>
      <4>1. x = o
        BY <2>1, <3>5
      <4> QED
        BY <3>2, <3>5, <4>1 DEF x
    <3> QED
      BY <3>2, <3>3, <3>4, <3>5
  <2> QED
    BY <1>10, <2>5, <2>7, <2>8, <2>9 DEF RgbInv
<1> QED
  BY <1>11, <1>12, <1>13, WriteWays

-----------------------------------------------------------------------------
(* The theorems.                                                            *)

\* The invariant holds at power-on and after a restart, whatever the LEDs show.
LEMMA RgbReset ==
    ASSUME led \in [LedRegisters -> LedBytes], brightness \in [Strips -> Byte],
           ready = {}, clean = {}, reported = {}, job = NoJob,
           copy = [c \in Components |-> [ch \in Channels |-> White(0)]],
           asked = [ch \in Channels |-> White(0)]
    PROVE  RgbInv
<1>1. White(0) \in Colour
  BY WhiteColour DEF Byte
<1> QED
  BY <1>1, OwnerAssumption DEF RgbInv, TypeOK, JobInv, CopyInv, ShownInv, CleanInv, Idle

LEMMA RgbInit == Init => RgbInv
<1> SUFFICES ASSUME Init PROVE RgbInv
  OBVIOUS
<1>1. led \in [LedRegisters -> LedBytes] /\ brightness \in [Strips -> Byte]
  BY DEF Init, LedBytes, Byte, Dark
<1> QED
  BY <1>1, RgbReset DEF Init

LEMMA RgbStep == RgbInv /\ [Next]_rgbVars => RgbInv'
<1> SUFFICES ASSUME RgbInv, [Next]_rgbVars PROVE RgbInv'
  OBVIOUS
<1>1. ASSUME NEW c \in Components, Setup(c) PROVE RgbInv'
  BY <1>1, SetupKeeps
<1>2. CASE SetStripBrightness
  <2>1. PICK strip \in 0..3 : \E value \in Brightnesses : SetBrightness(strip, value)
    BY <1>2 DEF SetStripBrightness
  <2>2. PICK value \in Brightnesses : SetBrightness(strip, value)
    BY <2>1
  <2>3. brightness' \in [Strips -> Byte]
    BY <2>2, BrightnessByte, RgbCallAssumption DEF RgbInv, TypeOK
  <2>4. UNCHANGED <<ready, copy, led, job, asked, reported, clean>>
    BY <1>2 DEF SetStripBrightness
  <2> QED
    BY <2>3, <2>4 DEF RgbInv, TypeOK, JobInv, CopyInv, ShownInv, CleanInv, Idle, Shows
<1>3. ASSUME NEW ch \in UsedChannels, NEW colour \in Palette, SetChannelColor(ch, colour)
      PROVE  RgbInv'
  <2>1. ch \in Channels /\ colour \in Colour
    BY RgbCallAssumption
  <2> QED
    BY <1>3, <2>1, PaintKeeps DEF SetChannelColor
<1>4. ASSUME NEW ch \in UsedChannels, NEW colour \in UsedColours, NEW level \in Levels,
             WriteState(ch, colour, level)
      PROVE  RgbInv'
  <2> DEFINE value == MapLevel(colour, level)
             new == SetComponent(copy[Owner[ch]][ch], colour, value)
  <2>1. ch \in Channels /\ colour \in Colours /\ value \in Byte
    BY MapLevelByte, RgbCallAssumption
  <2>2. /\ Idle /\ ready = Components /\ Paint(Owner[ch], ch, new, <<>>)
        /\ asked' = [asked EXCEPT ![ch][colour] = value]
        /\ clean' = clean \ {Owner[ch]} /\ UNCHANGED <<ready, led, brightness>>
    BY <1>4 DEF WriteState
  <2> HIDE DEF value
  <2>3. copy[Owner[ch]][ch] = asked[ch] /\ asked[ch] \in Colour
    BY <2>1, <2>2 DEF RgbInv, CopyInv, TypeOK, Idle
  <2>4. new \in Colour /\ new = [asked[ch] EXCEPT ![colour] = value]
    BY <2>1, <2>3, ComponentColour
  <2>5. asked' = [asked EXCEPT ![ch] = new]
    BY <2>1, <2>2, <2>4 DEF RgbInv, TypeOK
  <2> QED
    BY <2>1, <2>2, <2>4, <2>5, PaintKeeps
<1>5. ASSUME NEW ok \in BOOLEAN, NEW n \in 0..3, WriteLed(ok, n) PROVE RgbInv'
  BY <1>5, WriteKeeps
<1>6. CASE Restart
  <2>1. /\ led' \in [LedRegisters -> LedBytes] /\ brightness' \in [Strips -> Byte]
        /\ ready' = {} /\ clean' = {} /\ reported' = {} /\ job' = NoJob
        /\ copy' = [c \in Components |-> [ch \in Channels |-> White(0)]]
        /\ asked' = [ch \in Channels |-> White(0)]
    BY <1>6 DEF Restart, RgbInv, TypeOK
  <2>2. White(0) \in Colour
    BY WhiteColour DEF Byte
  <2> QED
    BY <2>1, <2>2, OwnerAssumption DEF RgbInv, TypeOK, JobInv, CopyInv, ShownInv,
       CleanInv, Idle
<1>7. CASE UNCHANGED rgbVars
  BY <1>7 DEF rgbVars, RgbInv, TypeOK, JobInv, CopyInv, ShownInv, CleanInv, Idle, Shows
<1> QED
  BY <1>1, <1>2, <1>3, <1>4, <1>5, <1>6, <1>7 DEF Next

\* The invariant is one.
LEMMA RgbAlways == Spec => []RgbInv
BY RgbInit, RgbStep, PTL DEF Spec

\* Every variable keeps its type: levels, colours and brightnesses stay bytes and
\* writes stay within the LED registers.
THEOREM RgbTypes == Spec => []TypeOK
<1>1. RgbInv => TypeOK
  BY DEF RgbInv
<1> QED
  BY RgbAlways, <1>1, PTL

\* What set_channel_color() reports as done is shown by every LED of the channel,
\* for every number of LEDs up to the seven the address map has room for.
THEOREM RgbReportedShown == Spec => []ReportedShown
<1>1. RgbInv => ReportedShown
  <2> SUFFICES ASSUME RgbInv, NEW ch \in reported, NEW r \in LayoutRegisters(ch)
               PROVE  Shows(r, asked[ch])
    BY DEF ReportedShown
  <2>1. ch \in Channels
    BY DEF RgbInv, TypeOK
  <2>2. PICK i \in 0..(NumLeds - 1) : r = Register(ch, i)
    BY <2>1, LayoutReached
  <2> QED
    BY <2>2 DEF RgbInv, ShownInv
<1> QED
  BY RgbAlways, <1>1, PTL

\* A boot in which no write failed leaves the whole strip white.
THEOREM RgbBootFill == Spec => []BootFill
<1>1. RgbInv => BootFill
  <2> SUFFICES ASSUME RgbInv, NEW c \in clean, Idle, InitialWhite[c] > 0, NEW k \in 1..2,
                      NEW r \in LayoutRegisters(StripChannels(InitialStrip[c])[k])
               PROVE  Shows(r, White(InitialWhite[c]))
    BY DEF BootFill
  <2> DEFINE ch == StripChannels(InitialStrip[c])[k]
  <2>1. ch \in reported /\ asked[ch] = White(InitialWhite[c])
    BY DEF RgbInv, CleanInv
  <2>2. ch \in Channels
    BY <2>1 DEF RgbInv, TypeOK
  <2>3. PICK i \in 0..(NumLeds - 1) : r = Register(ch, i)
    BY <2>2, LayoutReached
  <2> QED
    BY <2>1, <2>3 DEF RgbInv, ShownInv
<1> QED
  BY RgbAlways, <1>1, PTL
=============================================================================
