---------------------------- MODULE LP5562Proofs ----------------------------
(***************************************************************************)
(* Theorems on LP5562, for every configuration, every argument of the       *)
(* operations and every value an uninitialised variable may hold.           *)
(***************************************************************************)
EXTENDS LP5562, TLAPS

\* The two bits of a field's value.
LEMMA FieldBits ==
    ASSUME NEW v \in Field
    PROVE  /\ Bits(v) \subseteq {0, 1}
           /\ 0 \in Bits(v) <=> v \in {1, 3}
           /\ 1 \in Bits(v) <=> v \in {2, 3}
<1>1. /\ Powers[0] = 1 /\ Powers[1] = 2 /\ Powers[2] = 4 /\ Powers[3] = 8
      /\ Powers[4] = 16 /\ Powers[5] = 32 /\ Powers[6] = 64 /\ Powers[7] = 128
  BY DEF Powers, Bit
<1>2. \A i \in Bit : i \in Bits(v) <=> (v \div Powers[i]) % 2 = 1
  BY DEF Bits
<1>3. v = 0 \/ v = 1 \/ v = 2 \/ v = 3
  BY DEF Field
<1>4. /\ v \div 1 = v /\ v \div 4 = 0 /\ v \div 8 = 0 /\ v \div 16 = 0
      /\ v \div 32 = 0 /\ v \div 64 = 0 /\ v \div 128 = 0
  BY <1>3
<1>5. v \div 2 = 1 <=> v \in {2, 3}
  BY <1>3
<1>6. (v \div 2) % 2 = 1 <=> v \in {2, 3}
  BY <1>3, <1>5
<1>7. v % 2 = 1 <=> v \in {1, 3}
  BY <1>3
<1>8. ASSUME NEW i \in Bit, i >= 2 PROVE i \notin Bits(v)
  BY <1>1, <1>2, <1>4, <1>8 DEF Bit
<1>9. 0 \in Bit /\ 1 \in Bit /\ Bits(v) \subseteq Bit
  BY DEF Bit, Bits
<1> QED
  BY <1>1, <1>2, <1>4, <1>6, <1>7, <1>8, <1>9 DEF Bit

\* Shifting a field to its place gives the bits of that place.
LEMMA ShiftedField ==
    ASSUME NEW v \in Field, NEW shift \in {0, 2, 4, 6}, NEW i \in Bit
    PROVE  i \in ShiftLeft(Bits(v), shift) <=>
             \/ i = shift /\ v \in {1, 3}
             \/ i = shift + 1 /\ v \in {2, 3}
<1>1. \A j : j \in Bits(v) <=>
               \/ j = 0 /\ v \in {1, 3}
               \/ j = 1 /\ v \in {2, 3}
  BY FieldBits
<1>2. i \in ShiftLeft(Bits(v), shift) <=> \E j \in Bits(v) : i = j + shift
  BY DEF ShiftLeft
<1>3. (\E j \in Bits(v) : i = j + shift) <=>
        \/ i = shift /\ v \in {1, 3}
        \/ i = 1 + shift /\ v \in {2, 3}
  BY <1>1
<1> QED
  BY <1>2, <1>3

\* What masking, shifting and or-ing does to each bit of the register.
LEMMA WithFieldBits ==
    ASSUME NEW register \in SUBSET Bit, NEW shift \in {0, 2, 4, 6},
           NEW v \in Field, NEW i \in Bit
    PROVE  /\ WithField(register, shift, v) \in SUBSET Bit
           /\ i = shift => (i \in WithField(register, shift, v) <=> v \in {1, 3})
           /\ i = shift + 1 =>
                (i \in WithField(register, shift, v) <=> v \in {2, 3})
           /\ i \notin {shift, shift + 1} =>
                (i \in WithField(register, shift, v) <=> i \in register)
<1>1. 3 \in Field
  BY DEF Field
<1>2. i \in ShiftLeft(Bits(3), shift) <=> i \in {shift, shift + 1}
  BY <1>1, ShiftedField
<1>3. i \in WithField(register, shift, v) <=>
        \/ i \in register /\ i \notin ShiftLeft(Bits(3), shift)
        \/ i \in ShiftLeft(Bits(v), shift)
  BY DEF WithField
<1>4. i \in ShiftLeft(Bits(v), shift) <=>
        \/ i = shift /\ v \in {1, 3}
        \/ i = shift + 1 /\ v \in {2, 3}
  BY ShiftedField
<1>5. WithField(register, shift, v) \in SUBSET Bit
  BY DEF WithField, ShiftLeft
<1>6. shift # shift + 1
  OBVIOUS
<1> QED
  BY <1>2, <1>3, <1>4, <1>5, <1>6

\* The register with one field set reads back as that field's value there and as
\* before at every other field.
LEMMA WithFieldReads ==
    ASSUME NEW register \in SUBSET Bit, NEW shift \in {0, 2, 4, 6},
           NEW v \in Field, NEW bit \in {0, 2, 4, 6}
    PROVE  FieldAt(WithField(register, shift, v), bit) =
             IF bit = shift THEN v ELSE FieldAt(register, bit)
<1> DEFINE new == WithField(register, shift, v)
<1>1. bit \in Bit /\ bit + 1 \in Bit
  BY DEF Bit
<1>2. CASE bit = shift
  <2>1. bit \in new <=> v \in {1, 3}
    BY <1>1, <1>2, WithFieldBits
  <2>2. bit + 1 \in new <=> v \in {2, 3}
    BY <1>1, <1>2, WithFieldBits
  <2> HIDE DEF new
  <2>3. v = 0 \/ v = 1 \/ v = 2 \/ v = 3
    BY DEF Field
  <2>4. FieldAt(new, bit) = v
    BY <2>1, <2>2, <2>3 DEF FieldAt
  <2> QED
    BY <1>2, <2>4 DEF new
<1>3. CASE bit # shift
  <2>1. bit \notin {shift, shift + 1} /\ bit + 1 \notin {shift, shift + 1}
    BY <1>3
  <2>2. (bit \in new <=> bit \in register) /\ (bit + 1 \in new <=> bit + 1 \in register)
    BY <1>1, <2>1, WithFieldBits
  <2> HIDE DEF new
  <2>3. FieldAt(new, bit) = FieldAt(register, bit)
    BY <2>2 DEF FieldAt
  <2> QED
    BY <1>3, <2>3 DEF new
<1> QED
  BY <1>2, <1>3

\* The code shifts a channel's source to where the chip has it, and only there.
LEMMA MapReads ==
    ASSUME NEW map \in SUBSET Bit, NEW c \in Channels, NEW v \in Field, NEW d \in Channels
    PROVE  /\ WithField(map, ChannelShift(c), v) \in SUBSET Bit
           /\ SourcesOf(WithField(map, ChannelShift(c), v))[d] =
                IF d = c THEN v ELSE SourcesOf(map)[d]
<1>1. ChannelShift(c) = SourceBit[c] /\ SourceBit[c] \in {0, 2, 4, 6}
  BY DEF ChannelShift, SourceBit, Channels
<1>2. SourceBit[d] \in {0, 2, 4, 6} /\ (SourceBit[d] = SourceBit[c] <=> d = c)
  BY DEF SourceBit, Channels
<1>3. FieldAt(WithField(map, SourceBit[c], v), SourceBit[d]) =
        IF d = c THEN v ELSE FieldAt(map, SourceBit[d])
  BY <1>1, <1>2, WithFieldReads
<1>4. WithField(map, ChannelShift(c), v) \in SUBSET Bit
  BY DEF WithField, ShiftLeft
<1> QED
  BY <1>1, <1>3, <1>4 DEF SourcesOf

\* The same for the engines.
LEMMA ModeReads ==
    ASSUME NEW modes \in SUBSET Bit, NEW e \in Engines, NEW v \in Field, NEW d \in Engines
    PROVE  /\ WithField(modes, EngineShift(e), v) \in SUBSET Bit
           /\ ModesOf(WithField(modes, EngineShift(e), v))[d] =
                IF d = e THEN v ELSE ModesOf(modes)[d]
<1>0. (e = 0 \/ e = 1 \/ e = 2) /\ (d = 0 \/ d = 1 \/ d = 2)
  BY DEF Engines
<1>1. ModeBit[0] = 4 /\ ModeBit[1] = 2 /\ ModeBit[2] = 0
  BY DEF ModeBit, Engines
<1>2. EngineShift(e) = ModeBit[e] /\ ModeBit[e] \in {0, 2, 4, 6}
  BY <1>0, <1>1 DEF EngineShift
<1>3. ModeBit[d] \in {0, 2, 4, 6} /\ (ModeBit[d] = ModeBit[e] <=> d = e)
  BY <1>0, <1>1
<1>4. FieldAt(WithField(modes, ModeBit[e], v), ModeBit[d]) =
        IF d = e THEN v ELSE FieldAt(modes, ModeBit[d])
  BY <1>2, <1>3, WithFieldReads
<1>5. WithField(modes, EngineShift(e), v) \in SUBSET Bit
  BY DEF WithField, ShiftLeft
<1> QED
  BY <1>2, <1>4, <1>5 DEF ModesOf

\* A value shifted to the places in a set is what is read at each of them.
LEMMA EveryFieldReads ==
    ASSUME NEW v \in Field, NEW places \in SUBSET {0, 2, 4, 6}, NEW bit \in places
    PROVE  FieldAt(UNION {ShiftLeft(Bits(v), shift) : shift \in places}, bit) = v
<1> DEFINE all == UNION {ShiftLeft(Bits(v), shift) : shift \in places}
<1>1. \A i : i \in all <=> \E shift \in places : i \in ShiftLeft(Bits(v), shift)
  OBVIOUS
<1>2. bit \in Bit /\ bit + 1 \in Bit
  BY DEF Bit
<1>3. bit \in all <=> v \in {1, 3}
  <2>1. \A shift \in places : bit \in ShiftLeft(Bits(v), shift) <=>
          shift = bit /\ v \in {1, 3}
    BY <1>2, ShiftedField
  <2> QED
    BY <1>1, <2>1
<1>4. bit + 1 \in all <=> v \in {2, 3}
  <2>1. \A shift \in places : bit + 1 \in ShiftLeft(Bits(v), shift) <=>
          shift = bit /\ v \in {2, 3}
    <3> TAKE shift \in places
    <3>1. bit + 1 \in ShiftLeft(Bits(v), shift) <=>
            \/ bit + 1 = shift /\ v \in {1, 3}
            \/ bit + 1 = shift + 1 /\ v \in {2, 3}
      BY <1>2, ShiftedField
    <3> QED
      BY <3>1
  <2> QED
    BY <1>1, <2>1
<1> HIDE DEF all
<1>5. v = 0 \/ v = 1 \/ v = 2 \/ v = 3
  BY DEF Field
<1>6. FieldAt(all, bit) = v
  BY <1>3, <1>4, <1>5 DEF FieldAt
<1> QED
  BY <1>6 DEF all

LEMMA EverySourceReads ==
    ASSUME NEW v \in Field, NEW d \in Channels
    PROVE  EverySource(v) \in SUBSET Bit /\ SourcesOf(EverySource(v))[d] = v
<1> DEFINE places == {0, 2, 4, 6}
<1>1. SourceBit[d] \in places
  BY DEF SourceBit, Channels
<1>2. places \in SUBSET {0, 2, 4, 6}
  OBVIOUS
<1>3. EverySource(v) = UNION {ShiftLeft(Bits(v), shift) : shift \in places}
  BY DEF EverySource
<1> HIDE DEF places
<1>4. FieldAt(EverySource(v), SourceBit[d]) = v
  BY <1>1, <1>2, <1>3, EveryFieldReads
<1>5. EverySource(v) \in SUBSET Bit
  BY DEF EverySource, ShiftLeft
<1> QED
  BY <1>4, <1>5 DEF SourcesOf

LEMMA EveryModeReads ==
    ASSUME NEW v \in Field, NEW d \in Engines
    PROVE  EveryMode(v) \in SUBSET Bit /\ ModesOf(EveryMode(v))[d] = v
<1> DEFINE places == {0, 2, 4}
<1>1. ModeBit[d] \in places
  BY DEF ModeBit, Engines
<1>2. places \in SUBSET {0, 2, 4, 6}
  OBVIOUS
<1>3. EveryMode(v) = UNION {ShiftLeft(Bits(v), shift) : shift \in places}
  BY DEF EveryMode
<1> HIDE DEF places
<1>4. FieldAt(EveryMode(v), ModeBit[d]) = v
  BY <1>1, <1>2, <1>3, EveryFieldReads
<1>5. EveryMode(v) \in SUBSET Bit
  BY DEF EveryMode, ShiftLeft
<1> QED
  BY <1>4, <1>5 DEF ModesOf

\* The fields of a register are two bits wide.
LEMMA FieldsTypes ==
    ASSUME NEW register
    PROVE  /\ SourcesOf(register) \in [Channels -> Field]
           /\ ModesOf(register) \in [Engines -> Field]
<1>1. \A bit : FieldAt(register, bit) \in Field
  BY DEF FieldAt, Field
<1> QED
  BY <1>1 DEF SourcesOf, ModesOf

LEMMA ResetChipTypes == ResetChip \in Chips
<1>1. ResetChip.map \in SUBSET Bit /\ ResetChip.mode \in SUBSET Bit
  BY DEF ResetChip, Bit
<1>2. /\ ResetChip.enable \in Enables /\ ResetChip.config \in SUBSET ConfigBits
      /\ ResetChip.current \in [Channels -> Byte]
      /\ ResetChip.pwm \in [Channels -> Byte]
  BY DEF ResetChip, Enable, Enables, Byte
<1> QED
  BY <1>1, <1>2 DEF ResetChip, Chips

\* What a read leaves in the local variable has the type of the register.
LEMMA AfterReadTypes ==
    ASSUME NEW ok \in BOOLEAN, NEW register \in SUBSET Bit,
           NEW left \in AfterRead(ok, register)
    PROVE  left \in SUBSET Bit /\ (ok => left = register)
BY LpCallAssumption DEF AfterRead

\* The steps of setup() keep the types.
LEMMA SetupTypes == ASSUME TypeOK, Setup PROVE TypeOK'
<1> USE DEF TypeOK
<1>1. CASE SoftwareReset
  <2>1. lpChip' \in Chips
    BY <1>1, ResetChipTypes DEF SoftwareReset, CheckedWrite
  <2>2. /\ SourcesOf(ResetChip.map) \in [Channels -> Field]
        /\ ModesOf(ResetChip.mode) \in [Engines -> Field]
        /\ NoneGarbled \in [map : SUBSET Channels, mode : SUBSET Engines]
    BY FieldsTypes DEF NoneGarbled
  <2> QED
    BY <1>1, <2>1, <2>2 DEF SoftwareReset, CheckedWrite, SetupSteps, lpHistory
<1>2. CASE ChipEnable
  <2>1. [lpChip EXCEPT !.enable = Enable(TRUE, FALSE)] \in Chips
    BY DEF Chips, Enable, Enables
  <2> QED
    BY <1>2, <2>1 DEF ChipEnable, CheckedWrite, SetupSteps, lpHistory
<1>3. CASE WriteConfig
  <2>1. PICK config_val \in SUBSET ConfigBits :
          CheckedWrite("config", "read",
                       [lpChip EXCEPT !.config = config_val \cup Wanted])
    BY <1>3 DEF WriteConfig
  <2>2. [lpChip EXCEPT !.config = config_val \cup Wanted] \in Chips
    BY LpConfigAssumption DEF Chips
  <2> QED
    BY <1>3, <2>1, <2>2 DEF WriteConfig, CheckedWrite, SetupSteps, lpHistory
<1>4. CASE ReadEnable
  BY <1>4 DEF ReadEnable, SetupSteps, lpHistory, Chips
<1>5. CASE WriteLogarithmic
  <2>1. [lpChip EXCEPT !.enable = Enable(lpRead.chip, Logarithmic)] \in Chips
    BY LpConfigAssumption DEF Chips, Enable, Enables
  <2> QED
    BY <1>5, <2>1 DEF WriteLogarithmic, CheckedWrite, SetupSteps, lpHistory
<1>6. CASE MapAll
  <2>1. [c \in Channels |-> 0] \in [Channels -> Field] /\ 0 \in Field
    BY DEF Field
  <2>2. EverySource(0) \in SUBSET Bit
    BY DEF EverySource, ShiftLeft
  <2>3. [lpChip EXCEPT !.map = EverySource(0)] \in Chips
    BY <2>2 DEF Chips
  <2> QED
    BY <1>6, <2>1, <2>3 DEF MapAll, SetupSteps
<1>7. CASE SetCurrents
  <2>1. ASSUME NEW c \in Channels
        PROVE  [lpChip EXCEPT !.current[c] = LedCurrent[c]] \in Chips
    BY LpConfigAssumption DEF Chips
  <2>2. lpChip' \in Chips
    BY <1>7, <2>1 DEF SetCurrents, SetupCurrent, Channels
  <2> QED
    BY <1>7, <2>2 DEF SetCurrents, SetupCurrent, SetupSteps, lpHistory
<1> QED
  BY <1>1, <1>2, <1>3, <1>4, <1>5, <1>6, <1>7 DEF Setup

\* One LED is mapped: what the chip and the history are afterwards.
LEMMA MapLedKeeps ==
    ASSUME TypeOK, FieldsKept, NEW c \in Channels, NEW source \in Nat,
           MapLed(c, source)
    PROVE  TypeOK' /\ FieldsKept'
<1>1. CASE UNCHANGED <<lpChip, lpSource, lpGarbled>>
  BY <1>1 DEF MapLed, TypeOK, FieldsKept
<1>2. CASE ~UNCHANGED <<lpChip, lpSource, lpGarbled>>
  <2> DEFINE garbled(ok) == (IF ok THEN lpGarbled.map ELSE Channels) \ {c}
             new(map) == WithField(map, ChannelShift(c), source)
  <2>1. source \in Field
    BY DEF MapLed, Valid, Field
  <2>a. PICK ok \in BOOLEAN : \E map \in AfterRead(ok, lpChip.map) :
          /\ lpChip' = [lpChip EXCEPT !.map = new(map)]
          /\ lpSource' = [lpSource EXCEPT ![c] = source]
          /\ lpGarbled' = [lpGarbled EXCEPT !.map = garbled(ok)]
    BY <1>2 DEF MapLed, TypeOK
  <2>2. PICK map \in AfterRead(ok, lpChip.map) :
          /\ lpChip' = [lpChip EXCEPT !.map = new(map)]
          /\ lpSource' = [lpSource EXCEPT ![c] = source]
          /\ lpGarbled' = [lpGarbled EXCEPT !.map = garbled(ok)]
    BY <2>a
  <2>3. lpChip.map \in SUBSET Bit /\ lpChip \in Chips
    BY DEF TypeOK, Chips
  <2>4. map \in SUBSET Bit /\ (ok => map = lpChip.map)
    BY <2>2, <2>3, AfterReadTypes
  <2>5. /\ new(map) \in SUBSET Bit
        /\ \A d \in Channels : SourcesOf(new(map))[d] =
             IF d = c THEN source ELSE SourcesOf(map)[d]
    BY <2>1, <2>4, MapReads
  <2> HIDE DEF new
  <2>6. lpChip' \in Chips /\ lpChip'.map = new(map) /\ lpChip'.mode = lpChip.mode
    BY <2>2, <2>3, <2>5 DEF Chips
  <2>7. /\ lpGarbled' \in [map : SUBSET Channels, mode : SUBSET Engines]
        /\ lpGarbled'.map = garbled(ok) /\ lpGarbled'.mode = lpGarbled.mode
    BY <2>2 DEF TypeOK
  <2>8. TypeOK'
    BY <2>1, <2>2, <2>6, <2>7 DEF MapLed, TypeOK
  <2>9. ASSUME NEW d \in Channels, d \notin garbled(ok)
        PROVE  SourcesOf(new(map))[d] = [lpSource EXCEPT ![c] = source][d]
    <3>1. CASE d = c
      BY <2>5, <3>1 DEF TypeOK
    <3>2. CASE d # c
      <4>1. ok /\ d \notin lpGarbled.map
        BY <2>9, <3>2
      <4> QED
        BY <2>4, <2>5, <3>2, <4>1 DEF TypeOK, FieldsKept
    <3> QED
      BY <3>1, <3>2
  <2>10. FieldsKept'
    BY <2>2, <2>6, <2>7, <2>9 DEF MapLed, FieldsKept
  <2> QED
    BY <2>8, <2>10
<1> QED
  BY <1>1, <1>2

\* The same for one engine's mode.
LEMMA SetEngineModeKeeps ==
    ASSUME TypeOK, FieldsKept, NEW e \in Nat, NEW mode \in Nat,
           SetEngineMode(e, mode)
    PROVE  TypeOK' /\ FieldsKept'
<1>1. CASE UNCHANGED <<lpChip, lpMode, lpGarbled>>
  BY <1>1 DEF SetEngineMode, TypeOK, FieldsKept
<1>2. CASE ~UNCHANGED <<lpChip, lpMode, lpGarbled>>
  <2> DEFINE garbled(ok) == (IF ok THEN lpGarbled.mode ELSE Engines) \ {e}
             new(modes) == WithField(modes, EngineShift(e), mode)
  <2>1. mode \in Field /\ e \in Engines
    BY DEF SetEngineMode, Valid, Field, Engines
  <2>a. PICK ok \in BOOLEAN : \E modes \in AfterRead(ok, lpChip.mode) :
          /\ lpChip' = [lpChip EXCEPT !.mode = new(modes)]
          /\ lpMode' = [lpMode EXCEPT ![e] = mode]
          /\ lpGarbled' = [lpGarbled EXCEPT !.mode = garbled(ok)]
    BY <1>2 DEF SetEngineMode, TypeOK
  <2>2. PICK modes \in AfterRead(ok, lpChip.mode) :
          /\ lpChip' = [lpChip EXCEPT !.mode = new(modes)]
          /\ lpMode' = [lpMode EXCEPT ![e] = mode]
          /\ lpGarbled' = [lpGarbled EXCEPT !.mode = garbled(ok)]
    BY <2>a
  <2>3. lpChip.mode \in SUBSET Bit /\ lpChip \in Chips
    BY DEF TypeOK, Chips
  <2>4. modes \in SUBSET Bit /\ (ok => modes = lpChip.mode)
    BY <2>2, <2>3, AfterReadTypes
  <2>5. /\ new(modes) \in SUBSET Bit
        /\ \A d \in Engines : ModesOf(new(modes))[d] =
             IF d = e THEN mode ELSE ModesOf(modes)[d]
    BY <2>1, <2>4, ModeReads
  <2> HIDE DEF new
  <2>6. lpChip' \in Chips /\ lpChip'.mode = new(modes) /\ lpChip'.map = lpChip.map
    BY <2>2, <2>3, <2>5 DEF Chips
  <2>7. /\ lpGarbled' \in [map : SUBSET Channels, mode : SUBSET Engines]
        /\ lpGarbled'.mode = garbled(ok) /\ lpGarbled'.map = lpGarbled.map
    BY <2>2 DEF TypeOK
  <2>8. TypeOK'
    BY <2>1, <2>2, <2>6, <2>7 DEF SetEngineMode, TypeOK
  <2>9. ASSUME NEW d \in Engines, d \notin garbled(ok)
        PROVE  ModesOf(new(modes))[d] = [lpMode EXCEPT ![e] = mode][d]
    <3>1. CASE d = e
      BY <2>5, <3>1 DEF TypeOK
    <3>2. CASE d # e
      <4>1. ok /\ d \notin lpGarbled.mode
        BY <2>9, <3>2
      <4> QED
        BY <2>4, <2>5, <3>2, <4>1 DEF TypeOK, FieldsKept
    <3> QED
      BY <3>1, <3>2
  <2>10. FieldsKept'
    BY <2>2, <2>6, <2>7, <2>9 DEF SetEngineMode, FieldsKept
  <2> QED
    BY <2>8, <2>10
<1> QED
  BY <1>1, <1>2

\* A whole register is given one mode.
LEMMA SetAllEngineModeKeeps ==
    ASSUME TypeOK, FieldsKept, NEW mode \in Nat, SetAllEngineMode(mode)
    PROVE  TypeOK' /\ FieldsKept'
<1>1. CASE UNCHANGED <<lpChip, lpMode, lpGarbled>>
  BY <1>1 DEF SetAllEngineMode, TypeOK, FieldsKept
<1>2. CASE /\ lpChip' = [lpChip EXCEPT !.mode = EveryMode(mode)]
           /\ lpMode' = [e \in Engines |-> mode]
           /\ lpGarbled' = [lpGarbled EXCEPT !.mode = {}]
  <2>1. mode \in Field /\ [e \in Engines |-> mode] \in [Engines -> Field]
    BY DEF SetAllEngineMode, Valid, Field
  <2>2. /\ EveryMode(mode) \in SUBSET Bit
        /\ \A d \in Engines : ModesOf(EveryMode(mode))[d] = mode
    <3>1. 0 \in Engines
      BY DEF Engines
    <3> QED
      BY <2>1, <3>1, EveryModeReads
  <2>3. lpChip' \in Chips /\ lpChip'.map = lpChip.map
        /\ lpChip'.mode = EveryMode(mode)
    BY <1>2, <2>2 DEF TypeOK, Chips
  <2>4. /\ lpGarbled' \in [map : SUBSET Channels, mode : SUBSET Engines]
        /\ lpGarbled'.map = lpGarbled.map
    BY <1>2 DEF TypeOK
  <2>5. TypeOK'
    BY <1>2, <2>1, <2>3, <2>4 DEF SetAllEngineMode, TypeOK
  <2>6. FieldsKept'
    BY <1>2, <2>2, <2>3, <2>4 DEF SetAllEngineMode, FieldsKept
  <2> QED
    BY <2>5, <2>6
<1> QED
  BY <1>1, <1>2 DEF SetAllEngineMode

\* A step of setup() keeps the fields what they were last given.
LEMMA SetupKeepsFields == ASSUME TypeOK, FieldsKept, Setup PROVE FieldsKept'
<1> USE DEF FieldsKept, TypeOK
<1>1. CASE SoftwareReset
  BY <1>1 DEF SoftwareReset, CheckedWrite, lpHistory
<1>2. CASE ChipEnable
  BY <1>2 DEF ChipEnable, CheckedWrite, lpHistory, Chips
<1>3. CASE WriteConfig
  BY <1>3 DEF WriteConfig, CheckedWrite, lpHistory, Chips
<1>4. CASE ReadEnable
  BY <1>4 DEF ReadEnable, lpHistory
<1>5. CASE WriteLogarithmic
  BY <1>5 DEF WriteLogarithmic, CheckedWrite, lpHistory, Chips
<1>6. CASE MapAll
  <2>1. 0 \in Field
    BY DEF Field
  <2>2. \A c \in Channels : SourcesOf(EverySource(0))[c] = 0
    BY <2>1, EverySourceReads
  <2>3. CASE UNCHANGED <<lpChip, lpSource, lpGarbled>>
    BY <1>6, <2>3 DEF MapAll
  <2>4. CASE /\ lpChip' = [lpChip EXCEPT !.map = EverySource(0)]
             /\ lpSource' = [c \in Channels |-> 0]
             /\ lpGarbled' = [lpGarbled EXCEPT !.map = {}]
    <3>1. lpChip'.map = EverySource(0) /\ lpChip'.mode = lpChip.mode
      BY <2>4 DEF Chips
    <3>2. lpGarbled'.mode = lpGarbled.mode
      BY <2>4
    <3> QED
      BY <1>6, <2>2, <2>4, <3>1, <3>2 DEF MapAll
  <2> QED
    BY <1>6, <2>3, <2>4 DEF MapAll
<1>7. CASE SetCurrents
  <2>1. lpChip'.map = lpChip.map /\ lpChip'.mode = lpChip.mode
    BY <1>7 DEF SetCurrents, SetupCurrent, Chips
  <2> QED
    BY <1>7, <2>1 DEF SetCurrents, SetupCurrent, lpHistory
<1> QED
  BY <1>1, <1>2, <1>3, <1>4, <1>5, <1>6, <1>7 DEF Setup

\* Setting a brightness or a current touches that register only.
LEMMA LevelKeeps ==
    ASSUME TypeOK, FieldsKept, NEW c \in Channels, NEW level \in Byte,
           SetBrightness(c, level) \/ SetCurrent(c, level)
    PROVE  TypeOK' /\ FieldsKept'
<1>1. /\ lpChip' \in Chips
      /\ lpChip'.map = lpChip.map /\ lpChip'.mode = lpChip.mode
  BY DEF SetBrightness, SetCurrent, TypeOK, Chips
<1> QED
  BY <1>1 DEF SetBrightness, SetCurrent, TypeOK, FieldsKept, lpHistory

\* The types and the fields, for every step.
LEMMA TypesAndFields == Spec => [](TypeOK /\ FieldsKept)
<1>1. Init => TypeOK /\ FieldsKept
  <2>1. ASSUME Init PROVE TypeOK
    <3>1. /\ SourcesOf(ResetChip.map) \in [Channels -> Field]
          /\ ModesOf(ResetChip.mode) \in [Engines -> Field]
          /\ NoneGarbled \in [map : SUBSET Channels, mode : SUBSET Engines]
      BY FieldsTypes DEF NoneGarbled
    <3> QED
      BY <2>1, <3>1, ResetChipTypes DEF Init, TypeOK, SetupSteps, Enables, Enable
  <2> QED
    BY <2>1 DEF Init, FieldsKept
<1>2. ASSUME TypeOK, FieldsKept, [Next]_lpVars PROVE TypeOK' /\ FieldsKept'
  <2>1. CASE Setup
    BY <1>2, <2>1, SetupTypes, SetupKeepsFields
  <2>2. CASE Operation
    <3>1. /\ UserChannels \subseteq Channels /\ UserEngines \subseteq Nat
          /\ Levels \subseteq Byte /\ Sources \subseteq Nat /\ Modes \subseteq Nat
      BY LpCallAssumption DEF Byte
    <3>2. ASSUME NEW c \in UserChannels, NEW level \in Levels,
                 SetBrightness(c, level) \/ SetCurrent(c, level)
          PROVE  TypeOK' /\ FieldsKept'
      BY <1>2, <3>1, <3>2, LevelKeeps
    <3>3. ASSUME NEW c \in UserChannels, NEW source \in Sources, MapLed(c, source)
          PROVE  TypeOK' /\ FieldsKept'
      BY <1>2, <3>1, <3>3, MapLedKeeps
    <3>4. ASSUME NEW mode \in Modes, NEW e \in UserEngines, SetEngineMode(e, mode)
          PROVE  TypeOK' /\ FieldsKept'
      BY <1>2, <3>1, <3>4, SetEngineModeKeeps
    <3>5. ASSUME NEW mode \in Modes, SetAllEngineMode(mode)
          PROVE  TypeOK' /\ FieldsKept'
      BY <1>2, <3>1, <3>5, SetAllEngineModeKeeps
    <3> QED
      BY <2>2, <3>2, <3>3, <3>4, <3>5 DEF Operation
  <2>3. CASE Restart
    BY <1>2, <2>3 DEF Restart, TypeOK, FieldsKept, SetupSteps, lpHistory
  <2>4. CASE UNCHANGED lpVars
    BY <1>2, <2>4 DEF lpVars, TypeOK, FieldsKept
  <2> QED
    BY <1>2, <2>1, <2>2, <2>3, <2>4 DEF Next
<1> QED
  BY <1>1, <1>2, PTL DEF Spec

\* Every variable keeps its type.
THEOREM LpTypes == Spec => []TypeOK
BY TypesAndFields, PTL

\* The masks and shifts give each channel and engine the value it was last set to
\* and disturb no other, but for the fields put back after a failed read.
THEOREM LpFields == Spec => []FieldsKept
BY TypesAndFields, PTL

\* An operation leaves what setup() has established alone.
LEMMA OperationKeepsSetup == ASSUME TypeOK, SetupInv, Operation PROVE SetupInv'
<1>1. /\ lpPc' = lpPc /\ lpRead' = lpRead
      /\ lpChip'.enable = lpChip.enable /\ lpChip'.config = lpChip.config
  BY DEF Operation, SetBrightness, SetCurrent, MapLed, SetEngineMode,
         SetAllEngineMode, TypeOK, Chips, lpHistory
<1> QED
  BY <1>1 DEF SetupInv

\* A step of setup() either does its part or ends in failure.
LEMMA SetupKeepsSetup == ASSUME TypeOK, SetupInv, Setup PROVE SetupInv'
<1> USE DEF SetupInv, TypeOK, Chips
<1>1. CASE SoftwareReset
  BY <1>1 DEF SoftwareReset, CheckedWrite
<1>2. CASE ChipEnable
  BY <1>2 DEF ChipEnable, CheckedWrite, Enable
<1>3. CASE WriteConfig
  BY <1>3 DEF WriteConfig, CheckedWrite
<1>4. CASE ReadEnable
  BY <1>4 DEF ReadEnable
<1>5. CASE WriteLogarithmic
  BY <1>5 DEF WriteLogarithmic, CheckedWrite, Enable
<1>6. CASE MapAll
  BY <1>6 DEF MapAll
<1>7. CASE SetCurrents
  BY <1>7 DEF SetCurrents, SetupCurrent
<1> QED
  BY <1>1, <1>2, <1>3, <1>4, <1>5, <1>6, <1>7 DEF Setup

\* A component that is set up has its chip enabled as configured.
THEOREM LpEnabled == Spec => []UpMeansEnabled
<1>1. Init => SetupInv
  BY DEF Init, SetupInv
<1>2. TypeOK /\ SetupInv /\ [Next]_lpVars => SetupInv'
  <2> SUFFICES ASSUME TypeOK, SetupInv, [Next]_lpVars PROVE SetupInv'
    OBVIOUS
  <2>1. CASE Setup
    BY <2>1, SetupKeepsSetup
  <2>2. CASE Operation
    BY <2>2, OperationKeepsSetup
  <2>3. CASE Restart
    BY <2>3 DEF Restart, SetupInv
  <2>4. CASE UNCHANGED lpVars
    BY <2>4 DEF lpVars, SetupInv
  <2> QED
    BY <2>1, <2>2, <2>3, <2>4 DEF Next
<1>3. TypeOK /\ SetupInv => UpMeansEnabled
  BY DEF TypeOK, Chips, Enables, SetupInv, UpMeansEnabled, Enable
<1> QED
  BY <1>1, <1>2, <1>3, LpTypes, PTL DEF Spec
=============================================================================
