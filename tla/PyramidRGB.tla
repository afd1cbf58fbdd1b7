----------------------------- MODULE PyramidRGB -----------------------------
(***************************************************************************)
(* The LED strips (src/components/pyramidrgb): components that share one    *)
(* STM32 controller, each with its own copy of the colours, and outputs     *)
(* that set one colour of one channel.  A colour is written to one LED      *)
(* after the other; each write may fail, or break off within the LED's      *)
(* bytes, and the ESP32 may restart between two of them.                    *)
(*                                                                          *)
(* The controller keeps, by register address, each LED's bytes in its order *)
(* (blue, green, red), and the brightness of both strips.                   *)
(***************************************************************************)
EXTENDS Integers

CONSTANTS
    Components,   \* the PyramidRGBComponents of the configuration
    InitialStrip, \* initial_strip_ of each
    InitialWhite, \* initial_white_level_ of each
    InitialBrightness,
    Owner,        \* the component that the outputs of a channel belong to
    NumLeds,      \* NUM_LEDS_PER_GROUP
    Full,         \* the output level 1.0; levels are fractions of it
    Curve,        \* the dimming curve: the power of gamma_, or the identity
                  \*   without logarithmic_dimming_
    RefCurrent,   \* ref_current_ and the three colours' currents
    Current,
    Levels,       \* bound: the levels the outputs are set to,
    UsedChannels, \*   the channels and
    UsedColours,  \*   colours they are for
    Palette,      \* bound: the colours of calls to set_channel_color()
    Brightnesses  \* bound: the arguments of set_strip_brightness()

Byte == 0..255
Channels == 0..3
Strips == 1..2
Colours == {"R", "G", "B"}
Colour == [Colours -> Byte]
White(level) == [k \in Colours |-> level]

\* The channels of a strip (pyramidrgb.cpp:19-25).
StripChannels(strip) == IF strip = 1 THEN <<0, 1>> ELSE <<2, 3>>

ASSUME RgbConfigAssumption ==
    /\ InitialStrip \in [Components -> Strips]
    /\ InitialWhite \in [Components -> Byte]
    /\ InitialBrightness \in [Components -> 0..100]
    /\ NumLeds \in 1..7
    /\ Full \in Nat \ {0} /\ Curve \in [0..Full -> 0..Full]
    /\ RefCurrent \in Int /\ Current \in [Colours -> Int]
ASSUME RgbCallAssumption ==
    /\ Levels \subseteq Int /\ UsedChannels \subseteq Channels
    /\ UsedColours \subseteq Colours /\ Palette \subseteq Colour
    /\ Brightnesses \subseteq Byte

\* One channel, one component: nothing in the code makes sure of it, and two
\* components would overwrite each other's colours with their own copies.
ASSUME OwnerAssumption ==
    /\ Owner \in [Channels -> Components]
    /\ \A c \in Components : InitialWhite[c] > 0 =>
         \A i \in 1..2 : Owner[StripChannels(InitialStrip[c])[i]] = c

VARIABLES
    ready,      \* the components whose setup() has begun
    copy,       \* channel_colors_ of each component
    led,        \* the controller's LED registers
    brightness, \* the controller's brightness registers
    job,        \* the call of set_channel_color() that runs: at LED i of channel ch
    asked,      \* history: the colour last asked for of each channel
    reported,   \* history: the channels whose last call returned true
    clean       \* history: the components that have done nothing but a setup()
                \*   in which no write failed

rgbVars == <<ready, copy, led, brightness, job, asked, reported, clean>>

-----------------------------------------------------------------------------
(* Addresses.                                                               *)

\* Mutant: channel 1 starts where it would if a group had one LED less.
BaseOverlapping(ch) ==
    CASE ch = 0 -> 32 [] ch = 1 -> 32 + 4 * (NumLeds - 1) [] ch = 2 -> 124 [] ch = 3 -> 96

\* channel_base_addr_(): 0x20, 0x3C, 0x7C, 0x60.
Base(ch) == CASE ch = 0 -> 32 [] ch = 1 -> 60 [] ch = 2 -> 124 [] ch = 3 -> 96

HardwareIndex(ch, i) == IF ch \in {0, 1} THEN NumLeds - 1 - i ELSE i

Register(ch, i) == Base(ch) + HardwareIndex(ch, i) * 4

\* The LED registers, four bytes each; the address is a byte.
LedRegisters == {4 * k : k \in 0..63}
Dark == <<0, 0, 0>>
LedBytes == Byte \X Byte \X Byte

-----------------------------------------------------------------------------
(* map_level(): the curve, the scale of the colour, and rounding to a byte.  *)

\* num / den in 255ths, rounded.
Rounded(num, den) == (510 * num + den) \div (2 * den)

\* Mutant: the scale may take a level beyond 1.0.
ScaledUnclamped(num, den) == IF num <= 0 THEN 0 ELSE Rounded(num, den)

Scaled(num, den) ==
    IF num <= 0 THEN 0 ELSE IF num >= den THEN 255 ELSE Rounded(num, den)

MapLevel(colour, level) ==
    IF level <= 0 THEN 0
    ELSE LET x == Curve[IF level >= Full THEN Full ELSE level]
         IN IF RefCurrent > 0 THEN Scaled(x * Current[colour], Full * RefCurrent)
                              ELSE Scaled(x, Full)

-----------------------------------------------------------------------------
Call(c, ch, i, ok, rest) == [c |-> c, ch |-> ch, i |-> i, ok |-> ok, rest |-> rest]
NoJob == [ch |-> -1]
Idle == job = NoJob

Init ==
    /\ ready = {}
    /\ copy = [c \in Components |-> [ch \in Channels |-> White(0)]]
    /\ led = [r \in LedRegisters |-> Dark]
    /\ brightness = [s \in Strips |-> 0]
    /\ job = NoJob
    /\ asked = [ch \in Channels |-> White(0)]
    /\ reported = {}
    /\ clean = {}

\* set_channel_color() up to its loop; "rest" are the channels that setup() will
\* paint the same way afterwards.
Paint(c, ch, colour, rest) ==
    /\ copy' = [copy EXCEPT ![c][ch] = colour]
    /\ job' = Call(c, ch, 0, TRUE, rest)
    /\ reported' = reported \ {ch}

\* set_strip_brightness(): the register write succeeds, or fails and may have
\* reached the controller all the same.
SetBrightness(strip, value) ==
    LET v == IF value > 100 THEN 100 ELSE value
    IN IF strip \in Strips
       THEN brightness' \in {brightness, [brightness EXCEPT ![strip] = (v * 255) \div 100]}
       ELSE UNCHANGED brightness

\* Mutant: the second group of the strip is left out.
BootChannelsOne(strip) == <<StripChannels(strip)[1], StripChannels(strip)[1]>>

BootChannels(strip) == StripChannels(strip)

\* setup(): ESPHome calls it before the setup() of the lights.
Setup(c) ==
    /\ Idle /\ c \notin ready
    /\ ready' = ready \cup {c}
    /\ clean' = clean \cup {c}
    /\ SetBrightness(InitialStrip[c], InitialBrightness[c])
    /\ LET chs == BootChannels(InitialStrip[c])
           white == White(InitialWhite[c])
       IN IF InitialWhite[c] > 0
          THEN /\ Paint(c, chs[1], white, <<chs[2]>>)
               /\ asked' = [ch \in Channels |->
                              IF ch \in {chs[1], chs[2]} THEN white ELSE asked[ch]]
          ELSE UNCHANGED <<copy, job, asked, reported>>
    /\ UNCHANGED led

\* A lambda sets a strip's brightness through some component.
SetStripBrightness ==
    /\ Idle /\ ready = Components
    /\ \E strip \in 0..3, value \in Brightnesses : SetBrightness(strip, value)
    /\ UNCHANGED <<ready, copy, led, job, asked, reported, clean>>

\* A lambda sets a channel's colour.
SetChannelColor(ch, colour) ==
    /\ Idle /\ ready = Components
    /\ Paint(Owner[ch], ch, colour, <<>>)
    /\ asked' = [asked EXCEPT ![ch] = colour]
    /\ clean' = clean \ {Owner[ch]}
    /\ UNCHANGED <<ready, led, brightness>>

\* set_channel_color_component() on the copy of the channel's colour.
SetComponent(old, colour, value) == [old EXCEPT ![colour] = value]

\* write_state() of an output.
WriteState(ch, colour, level) ==
    LET value == MapLevel(colour, level)
        c == Owner[ch]
    IN /\ Idle /\ ready = Components
       /\ Paint(c, ch, SetComponent(copy[c][ch], colour, value), <<>>)
       /\ asked' = [asked EXCEPT ![ch][colour] = value]
       /\ clean' = clean \ {c}
       /\ UNCHANGED <<ready, led, brightness>>

\* The LED's bytes after the first n of them were written.
Bytes(colour) == <<colour["B"], colour["G"], colour["R"]>>
Overwritten(old, new, n) ==
    << IF n >= 1 THEN new[1] ELSE old[1],
       IF n >= 2 THEN new[2] ELSE old[2],
       IF n >= 3 THEN new[3] ELSE old[3] >>

\* One turn of set_channel_color()'s loop, and what follows its last.
WriteLed(ok, n) ==
    LET ch == job.ch
        r == Register(ch, job.i)
        colour == copy[job.c][ch]
        good == job.ok /\ ok
        last == job.i = NumLeds - 1
    IN /\ ~Idle
       /\ ok => n = 3
       /\ led' = [led EXCEPT ![r] = Overwritten(@, Bytes(colour), n)]
       /\ clean' = IF ok THEN clean ELSE clean \ {job.c}
       /\ IF ~last
          THEN /\ job' = Call(job.c, ch, job.i + 1, good, job.rest)
               /\ UNCHANGED <<copy, reported>>
          ELSE IF job.rest # <<>>
          THEN /\ job' = Call(job.c, job.rest[1], 0, TRUE, <<>>)
               /\ copy' = [copy EXCEPT ![job.c][job.rest[1]] = colour]
               /\ reported' = (IF good THEN reported \cup {ch} ELSE reported) \ {job.rest[1]}
          ELSE /\ job' = NoJob
               /\ reported' = IF good THEN reported \cup {ch} ELSE reported
               /\ UNCHANGED copy
       /\ UNCHANGED <<ready, brightness, asked>>

\* The ESP32 restarts; the controller keeps its registers.
Restart ==
    /\ ready' = {}
    /\ copy' = [c \in Components |-> [ch \in Channels |-> White(0)]]
    /\ job' = NoJob
    /\ asked' = [ch \in Channels |-> White(0)]
    /\ reported' = {} /\ clean' = {}
    /\ UNCHANGED <<led, brightness>>

Next ==
    \/ \E c \in Components : Setup(c)
    \/ SetStripBrightness
    \/ \E ch \in UsedChannels, colour \in Palette : SetChannelColor(ch, colour)
    \/ \E ch \in UsedChannels, colour \in UsedColours, level \in Levels :
         WriteState(ch, colour, level)
    \/ \E ok \in BOOLEAN, n \in 0..3 : WriteLed(ok, n)
    \/ Restart

Spec == Init /\ [][Next]_rgbVars

-----------------------------------------------------------------------------
(* Properties.                                                              *)

Jobs == [c : Components, ch : Channels, i : 0..(NumLeds - 1), ok : BOOLEAN,
         rest : {<<>>} \cup {<<ch>> : ch \in Channels}]

\* Every variable keeps its type: no level, colour or brightness leaves a byte,
\* and no write leaves the LED registers.
TypeOK ==
    /\ ready \subseteq Components /\ clean \subseteq ready
    /\ copy \in [Components -> [Channels -> Colour]]
    /\ led \in [LedRegisters -> LedBytes]
    /\ brightness \in [Strips -> Byte]
    /\ job \in Jobs \cup {NoJob}
    /\ asked \in [Channels -> Colour]
    /\ reported \subseteq Channels

\* The registers of a channel as the README lists them (README.md:58-61).
LayoutFirst == [ch \in Channels |->
    IF ch = 0 THEN 32 ELSE IF ch = 1 THEN 60 ELSE IF ch = 2 THEN 124 ELSE 96]
LayoutRegisters(ch) == {LayoutFirst[ch] + 4 * i : i \in 0..(NumLeds - 1)}

Shows(r, colour) == led[r] = Bytes(colour)

\* A call that returned true has every LED of its channel showing the colour that
\* was asked for, also after any calls for other channels, failed calls before it,
\* and restarts: channels do not reach into each other's registers, and no LED is
\* left over.
ReportedShown ==
    \A ch \in reported : \A r \in LayoutRegisters(ch) : Shows(r, asked[ch])

\* "fill on boot" (README.md:73): a component that has done nothing but a setup()
\* in which no write failed has its whole strip white.
BootFill ==
    \A c \in clean : Idle /\ InitialWhite[c] > 0 =>
      \A k \in 1..2 : \A r \in LayoutRegisters(StripChannels(InitialStrip[c])[k]) :
        Shows(r, White(InitialWhite[c]))
=============================================================================
