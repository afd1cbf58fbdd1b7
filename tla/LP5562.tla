------------------------------- MODULE LP5562 -------------------------------
(***************************************************************************)
(* The LP5562 LED driver (src/components/lp5562): setup() as the sequence   *)
(* of its bus transactions, and the operations on brightness, current, LED  *)
(* mapping and engine mode, over a chip whose reads and writes may fail and *)
(* an ESP32 that may restart between any two of them.                       *)
(*                                                                          *)
(* The LED map and the mode register, which the code takes apart with masks *)
(* and shifts, are bytes, each the set of its bits that are 1; of REG_ENABLE *)
(* and REG_CONFIG only the bits with a meaning are kept, by name.  A        *)
(* variable that a failed read leaves uninitialised holds any value.        *)
(***************************************************************************)
EXTENDS Naturals

CONSTANTS
    Wanted,        \* the bits of REG_CONFIG the configuration asks for
    Logarithmic,   \* logarithmic_dimming_
    LedCurrent,    \* the current of each channel, in steps of 0.1 mA
    UserChannels,  \* bound: the channels, engines, levels, sources and modes
    UserEngines,   \*   the operations are called with
    Levels,
    Sources,
    Modes,
    Garbage        \* bound: the bytes an uninitialised variable is seen to hold

Byte == 0..255
Bit == 0..7
Channels == {"B", "G", "R", "W"}
Engines == 0..2
Field == 0..3
ConfigBits == {"internal_clk", "power_save", "high_pwm_freq", "reserved"}

ASSUME LpConfigAssumption ==
    /\ Wanted \subseteq ConfigBits \ {"reserved"}
    /\ Logarithmic \in BOOLEAN
    /\ LedCurrent \in [Channels -> Byte]
ASSUME LpCallAssumption ==
    /\ UserChannels \subseteq Channels /\ UserEngines \subseteq Byte
    /\ Levels \subseteq Byte
    /\ Sources \subseteq Nat /\ Modes \subseteq Nat
    /\ Garbage \subseteq SUBSET Bit

VARIABLES
    lpPc,       \* where setup() is, or how it has ended
    lpChip,     \* the chip's registers
    lpRead,     \* curr_enable, the local variable of setup()
    lpSource,   \* history: the source each channel was last given
    lpMode,     \* history: the mode each engine was last given
    lpGarbled   \* history: the channels and engines whose fields were written
                \*   back after a failed read, and not set since

lpVars == <<lpPc, lpChip, lpRead, lpSource, lpMode, lpGarbled>>
lpHistory == <<lpSource, lpMode, lpGarbled>>

SetupSteps == {"reset", "enable", "config", "read", "log", "map",
               "current_b", "current_g", "current_r", "current_w"}

\* The places where other code runs: setup() has not begun, or has ended.
\* ESPHome may write an output before its parent's setup(), and outputs do not
\* look at whether the parent is marked failed.
AtRest == {"reset", "up", "failed"}

Enable(chip, log) == [chip |-> chip, log |-> log]

\* Where the chip has the field of each channel and of each engine: the lower of
\* its two bits.
SourceBit == [c \in Channels |-> CASE c = "B" -> 0 [] c = "G" -> 2
                                   [] c = "R" -> 4 [] c = "W" -> 6]
ModeBit == [e \in Engines |-> CASE e = 0 -> 4 [] e = 1 -> 2 [] e = 2 -> 0]

\* What the chip takes the two bits of a field for.
FieldAt(register, bit) ==
    (IF bit \in register THEN 1 ELSE 0) + (IF bit + 1 \in register THEN 2 ELSE 0)

SourcesOf(map) == [c \in Channels |-> FieldAt(map, SourceBit[c])]
ModesOf(op_mode) == [e \in Engines |-> FieldAt(op_mode, ModeBit[e])]

\* The registers after a reset, as the data sheet gives them: the LED map is 0x39.
ResetChip ==
    [enable  |-> Enable(FALSE, FALSE),
     config  |-> {},
     map     |-> {0, 3, 4, 5},
     mode    |-> {},
     current |-> [c \in Channels |-> 175],
     pwm     |-> [c \in Channels |-> 0]]

NoneGarbled == [map |-> {}, mode |-> {}]

Init ==
    /\ lpPc = "reset"
    /\ lpChip = ResetChip
    /\ lpRead = Enable(FALSE, FALSE)
    /\ lpSource = SourcesOf(ResetChip.map) /\ lpMode = ModesOf(ResetChip.mode)
    /\ lpGarbled = NoneGarbled

-----------------------------------------------------------------------------
(* The arithmetic on bytes.                                                 *)

Powers == [i \in Bit |-> CASE i = 0 -> 1 [] i = 1 -> 2 [] i = 2 -> 4 [] i = 3 -> 8
                          [] i = 4 -> 16 [] i = 5 -> 32 [] i = 6 -> 64 [] i = 7 -> 128]
Bits(value) == {i \in Bit : (value \div Powers[i]) % 2 = 1}

\* value << shift, in a uint8_t.
ShiftLeft(byte, shift) == {i \in Bit : \E j \in byte : i = j + shift}

\* Mutant: the old bits are not cleared.
WithFieldOred(register, shift, value) ==
    register \cup ShiftLeft(Bits(value), shift)

\* (register & ~(0x03 << shift)) | (value << shift)
WithField(register, shift, value) ==
    (register \cap (Bit \ ShiftLeft(Bits(3), shift)))
      \cup ShiftLeft(Bits(value), shift)

-----------------------------------------------------------------------------
(* setup().                                                                 *)

\* A write under LP5562_ERROR_CHECK: one that reports an error, whether or not
\* the chip has taken it, marks the component failed and ends setup().
CheckedWrite(from, to, chip) ==
    /\ lpPc = from
    /\ \/ lpPc' = to /\ lpChip' = chip
       \/ lpPc' = "failed" /\ lpChip' \in {lpChip, chip}

\* The map and the modes start anew when the chip has taken the reset.
SoftwareReset ==
    /\ CheckedWrite("reset", "enable", ResetChip)
    /\ IF lpChip' = ResetChip
       THEN /\ lpSource' = SourcesOf(ResetChip.map)
            /\ lpMode' = ModesOf(ResetChip.mode)
            /\ lpGarbled' = NoneGarbled
       ELSE UNCHANGED lpHistory
    /\ UNCHANGED lpRead

ChipEnable ==
    /\ CheckedWrite("enable", "config",
                    [lpChip EXCEPT !.enable = Enable(TRUE, FALSE)])
    /\ UNCHANGED <<lpRead, lpHistory>>

\* config_val starts uninitialised; the wanted bits are set in it.
WriteConfig ==
    /\ \E config_val \in SUBSET ConfigBits :
         CheckedWrite("config", "read",
                      [lpChip EXCEPT !.config = config_val \cup Wanted])
    /\ UNCHANGED <<lpRead, lpHistory>>

\* Mutant: setup() goes on with what a failed read has left.
ReadEnableUnchecked ==
    /\ lpPc = "read"
    /\ lpPc' = "log" /\ \E chip, log \in BOOLEAN : lpRead' = Enable(chip, log)
    /\ UNCHANGED <<lpChip, lpHistory>>

ReadEnable ==
    /\ lpPc = "read"
    /\ \/ lpPc' = "log" /\ lpRead' = lpChip.enable
       \/ lpPc' = "failed" /\ lpRead' = lpRead
    /\ UNCHANGED <<lpChip, lpHistory>>

WriteLogarithmic ==
    /\ CheckedWrite("log", "map",
                    [lpChip EXCEPT !.enable = Enable(lpRead.chip, Logarithmic)])
    /\ UNCHANGED <<lpRead, lpHistory>>

\* (source << 6) | (source << 4) | (source << 2) | source
EverySource(source) ==
    UNION {ShiftLeft(Bits(source), shift) : shift \in {0, 2, 4, 6}}

\* set_all_led_mapping_(0); its error is only logged, like those below.
MapAll ==
    /\ lpPc = "map"
    /\ lpPc' = "current_b"
    /\ \/ /\ lpChip' = [lpChip EXCEPT !.map = EverySource(0)]
          /\ lpSource' = [c \in Channels |-> 0]
          /\ lpGarbled' = [lpGarbled EXCEPT !.map = {}]
       \/ UNCHANGED <<lpChip, lpSource, lpGarbled>>
    /\ UNCHANGED <<lpRead, lpMode>>

\* One of the four calls of set_led_current_by_channel().
SetupCurrent(from, c, to) ==
    /\ lpPc = from
    /\ lpPc' = to
    /\ lpChip' \in {lpChip, [lpChip EXCEPT !.current[c] = LedCurrent[c]]}
    /\ UNCHANGED <<lpRead, lpHistory>>

SetCurrents ==
    \/ SetupCurrent("current_b", "B", "current_g")
    \/ SetupCurrent("current_g", "G", "current_r")
    \/ SetupCurrent("current_r", "R", "current_w")
    \/ SetupCurrent("current_w", "W", "up")

\* The ESP32 restarts, whatever it was doing; the chip keeps its registers.
Restart ==
    /\ lpPc' = "reset"
    /\ UNCHANGED <<lpChip, lpRead, lpHistory>>

Setup ==
    \/ SoftwareReset \/ ChipEnable \/ WriteConfig \/ ReadEnable
    \/ WriteLogarithmic \/ MapAll \/ SetCurrents

-----------------------------------------------------------------------------
(* Operations.                                                              *)

\* write_state() of an output.
SetBrightness(c, level) ==
    /\ lpPc \in AtRest
    /\ lpChip' \in {lpChip, [lpChip EXCEPT !.pwm[c] = level]}
    /\ UNCHANGED <<lpPc, lpRead, lpHistory>>

SetCurrent(c, level) ==
    /\ lpPc \in AtRest
    /\ lpChip' \in {lpChip, [lpChip EXCEPT !.current[c] = level]}
    /\ UNCHANGED <<lpPc, lpRead, lpHistory>>

\* What read_byte() leaves in the local variable: the register when the read
\* succeeds, anything when it fails, for the failure is only logged.
AfterRead(ok, register) == IF ok THEN {register} ELSE Garbage

\* Mutant: four is taken for a source and a mode.
ValidOneMore(x) == x <= 4

\* There are four sources and four modes; for another one the code returns.
Valid(x) == x <= 3

ChannelShift(c) ==
    CASE c = "B" -> 0 [] c = "G" -> 2 [] c = "R" -> 4 [] c = "W" -> 6

\* The write also puts back the other fields of the register, as they were read.
MapLed(c, source) ==
    /\ lpPc \in AtRest
    /\ Valid(source)
    /\ \E ok \in BOOLEAN : \E current_mapping \in AfterRead(ok, lpChip.map) :
         \/ /\ lpChip' = [lpChip EXCEPT !.map =
                            WithField(current_mapping, ChannelShift(c), source)]
            /\ lpSource' = [lpSource EXCEPT ![c] = source]
            /\ lpGarbled' = [lpGarbled EXCEPT !.map =
                               (IF ok THEN @ ELSE Channels) \ {c}]
         \/ UNCHANGED <<lpChip, lpSource, lpGarbled>>
    /\ UNCHANGED <<lpPc, lpRead, lpMode>>

EngineShift(engine) == (2 - engine) * 2

\* set_engine_mode_() and set_all_engine_mode_() have no caller in this
\* repository: they are there for subclasses.
SetEngineMode(engine, mode) ==
    /\ lpPc \in AtRest
    /\ engine <= 2 /\ Valid(mode)
    /\ \E ok \in BOOLEAN : \E current_op_mode \in AfterRead(ok, lpChip.mode) :
         \/ /\ lpChip' = [lpChip EXCEPT !.mode =
                            WithField(current_op_mode, EngineShift(engine), mode)]
            /\ lpMode' = [lpMode EXCEPT ![engine] = mode]
            /\ lpGarbled' = [lpGarbled EXCEPT !.mode =
                               (IF ok THEN @ ELSE Engines) \ {engine}]
         \/ UNCHANGED <<lpChip, lpMode, lpGarbled>>
    /\ UNCHANGED <<lpPc, lpRead, lpSource>>

\* (mode << 4) | (mode << 2) | mode
EveryMode(mode) == UNION {ShiftLeft(Bits(mode), shift) : shift \in {0, 2, 4}}

SetAllEngineMode(mode) ==
    /\ lpPc \in AtRest
    /\ Valid(mode)
    /\ \/ /\ lpChip' = [lpChip EXCEPT !.mode = EveryMode(mode)]
          /\ lpMode' = [e \in Engines |-> mode]
          /\ lpGarbled' = [lpGarbled EXCEPT !.mode = {}]
       \/ UNCHANGED <<lpChip, lpMode, lpGarbled>>
    /\ UNCHANGED <<lpPc, lpRead, lpSource>>

Operation ==
    \/ \E c \in UserChannels :
         \/ \E level \in Levels : SetBrightness(c, level) \/ SetCurrent(c, level)
         \/ \E source \in Sources : MapLed(c, source)
    \/ \E mode \in Modes :
         \/ \E e \in UserEngines : SetEngineMode(e, mode)
         \/ SetAllEngineMode(mode)

Next == Setup \/ Operation \/ Restart

Spec == Init /\ [][Next]_lpVars

-----------------------------------------------------------------------------
(* Properties.                                                              *)

Enables == [chip : BOOLEAN, log : BOOLEAN]
Chips == [enable : Enables, config : SUBSET ConfigBits,
          map : SUBSET Bit, mode : SUBSET Bit,
          current : [Channels -> Byte], pwm : [Channels -> Byte]]

\* Every variable keeps its type; no operation writes a source or a mode that
\* does not fit its two bits.
TypeOK ==
    /\ lpPc \in SetupSteps \cup {"up", "failed"}
    /\ lpChip \in Chips
    /\ lpRead \in Enables
    /\ lpSource \in [Channels -> Field]
    /\ lpMode \in [Engines -> Field]
    /\ lpGarbled \in [map : SUBSET Channels, mode : SUBSET Engines]

\* How far the chip's registers follow the configuration at each step of setup(),
\* whatever a restart has left in them.
SetupInv ==
    LET Currents == {"current_b", "current_g", "current_r", "current_w", "up"} IN
    /\ lpPc \in {"config", "read", "log", "map"} \cup Currents =>
         lpChip.enable.chip
    /\ lpPc = "log" => lpRead.chip
    /\ lpPc \in {"read", "log", "map"} \cup Currents =>
         Wanted \subseteq lpChip.config
    /\ lpPc \in {"map"} \cup Currents => lpChip.enable.log = Logarithmic

\* A component that is set up has its chip enabled, with the dimming that was
\* configured and every bit of REG_CONFIG the configuration asks for: a write or
\* read that failed on the way, or a restart in the middle, is never passed over.
UpMeansEnabled ==
    lpPc = "up" =>
      /\ lpChip.enable = Enable(TRUE, Logarithmic)
      /\ Wanted \subseteq lpChip.config

\* Mapping a LED or setting an engine's mode, by masks and shifts on the byte that
\* was read, gives the bits at that channel's or engine's place the value asked for
\* and disturbs no other field, in whatever order and whichever writes fail.  Only
\* the fields a write has put back after a failed read (lp5562.cpp:157, :183) may
\* hold something else, until they are set themselves.
FieldsKept ==
    /\ \A c \in Channels \ lpGarbled.map : SourcesOf(lpChip.map)[c] = lpSource[c]
    /\ \A e \in Engines \ lpGarbled.mode : ModesOf(lpChip.mode)[e] = lpMode[e]

\* lp5562.cpp:61-69, "Bit 0 = 1 to enable the internal clock", "Bit 5 = 1 to
\* enable the power save mode", "Bit 6 = 1 for 588 Hz": once set up, the chip has
\* the bits the configuration asks for and no other.
ConfigAsConfigured == lpPc = "up" => lpChip.config = Wanted
=============================================================================
