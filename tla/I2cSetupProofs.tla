--------------------------- MODULE I2cSetupProofs ---------------------------
(***************************************************************************)
(* Theorems on I2cSetup: what the clock generator's outputs and the flag    *)
(* setup_complete_ say of the registers, whatever fails and restarts.       *)
(***************************************************************************)
EXTENDS I2cSetup, TLAPS

\* The writes of the clock generator, one by one.
LEMMA Si5351WriteAt ==
    /\ Len(Si5351Writes) = 8
    /\ Si5351Writes[1] = Write({"outputs"}, "off")
    /\ Si5351Writes[2] = Write({"drivers", "clk1"}, "down")
    /\ Si5351Writes[3] = Write({"xtal"}, "set")
    /\ Si5351Writes[4] = Write({"multisynth_na"}, "set")
    /\ Si5351Writes[5] = Write({"multisynth1"}, "set")
    /\ Si5351Writes[6] = Write({"clk1"}, "set")
    /\ Si5351Writes[7] = Write({"pll"}, "set")
    /\ Si5351Writes[8] = Write({"outputs"}, "on")
BY DEF Si5351Writes

\* A device is at one of its writes until its setup() has ended.
AtInv ==
    /\ at["si5351"] = 9 <=> "si5351" \in complete
    /\ at["aw87559"] \in 1..3
    /\ at["aw87559"] = 3 <=> "aw87559" \in complete

\* Where the amplifier's registers are.
AmplifierProgress ==
    /\ at["aw87559"] > 1 => register["aw87559"]["chipid"] = "set"
    /\ at["aw87559"] > 2 => register["aw87559"]["sysctrl"] = "set"

SetupStrength ==
    /\ TypeOK /\ AtInv /\ Progress /\ AmplifierProgress
    /\ OutputsConfigured /\ HalfwayOff

\* The write that is to be made names registers of the device and a value.
LEMMA WriteTypes ==
    ASSUME TypeOK, AtInv, NEW d \in Devices, Running(d)
    PROVE  LET w == Writes(d)[at[d]]
           IN /\ w.regs \subseteq Registers(d)
              /\ w.value \in Values /\ Left(w) \subseteq Values
              /\ at[d] \in 1..Len(Writes(d)) /\ at[d] \in 1..8
              /\ Len(Writes(d)) \in {2, 8}
<1>1. CASE d = "si5351"
  <2>1. at[d] \in 1..8
    BY <1>1 DEF Running, TypeOK, AtInv, Devices
  <2>2. \E k \in 1..8 : at[d] = k /\ Writes(d)[at[d]] = Si5351Writes[k]
    BY <1>1, <2>1 DEF Writes
  <2>3. \A k \in 1..8 : LET w == Si5351Writes[k]
                        IN w.regs \subseteq Clock /\ w.value \in Values
    BY Si5351WriteAt DEF Write, Clock, Values
  <2>4. Len(Writes(d)) = 8 /\ Registers(d) = Clock /\ "torn" \in Values
    BY <1>1, Si5351WriteAt DEF Writes, Registers, Values
  <2> QED
    BY <2>1, <2>2, <2>3, <2>4 DEF Left
<1>2. CASE d = "aw87559"
  <2>1. at[d] \in 1..2
    BY <1>2 DEF Running, TypeOK, AtInv, Devices
  <2>2. /\ Writes(d) = Aw87559Writes /\ Len(Aw87559Writes) = 2
        /\ Aw87559Writes[1] = Write({"chipid"}, "set")
        /\ Aw87559Writes[2] = Write({"sysctrl"}, "set")
    BY <1>2 DEF Writes, Aw87559Writes
  <2>3. \A k \in 1..2 : LET w == Aw87559Writes[k]
                        IN w.regs \subseteq Amplifier /\ w.value \in Values
    BY <2>2 DEF Write, Amplifier, Values
  <2>4. Registers(d) = Amplifier /\ "torn" \in Values
    BY <1>2 DEF Registers, Values
  <2> QED
    BY <2>1, <2>2, <2>3, <2>4 DEF Left
<1> QED
  BY <1>1, <1>2 DEF Devices

\* A write, whole or not, keeps the type of the device's registers.
LEMMA WrittenTypes ==
    ASSUME NEW S, NEW regs \in [S -> Values], NEW w, NEW taken \in SUBSET S,
           NEW value \in Values
    PROVE  /\ Written(regs, w, taken, value) \in [S -> Values]
           /\ \A r \in S : Written(regs, w, taken, value)[r] =
                IF r \in taken THEN value
                ELSE IF r = "pll" /\ w.regs \cap Multisynths # {} THEN "found"
                ELSE regs[r]
BY DEF Written, Values

\* What a step of device d's setup() that makes write w, of n, does: the write
\* breaks off and the component fails, or the setup goes on.
Effect(d, w, n, taken, value) ==
    /\ register' = [register EXCEPT ![d] = Written(register[d], w, taken, value)]
    /\ \/ failed' = failed \cup {d} /\ at' = at /\ complete' = complete
       \/ /\ failed' = failed /\ at' = [at EXCEPT ![d] = at[d] + 1]
          /\ complete' = IF at[d] = n THEN complete \cup {d} ELSE complete
          /\ taken = w.regs /\ value = w.value

StepShape(d, w, n) ==
    \E taken \in SUBSET w.regs : \E value \in Left(w) : Effect(d, w, n, taken, value)

\* Every step of a setup() has that shape.
LEMMA StepEffect ==
    ASSUME TypeOK, NEW d \in Devices, SetupStep(d)
    PROVE  StepShape(d, Writes(d)[at[d]], Len(Writes(d)))
<1> DEFINE w == Writes(d)[at[d]]
<1>1. CASE WriteFails(d)
  <2>1. PICK taken \in SUBSET w.regs :
          \E value \in Left(w) :
             register' = [register EXCEPT ![d] = Written(register[d], w, taken, value)]
    BY <1>1 DEF WriteFails, TypeOK
  <2> QED
    BY <1>1, <2>1 DEF WriteFails, StepShape, Effect
<1>2. CASE WriteSucceeds(d)
  <2>1. w.value \in Left(w) /\ w.regs \in SUBSET w.regs
    BY DEF Left
  <2>2. register' = [register EXCEPT ![d] = Written(register[d], w, w.regs, w.value)]
    BY <1>2 DEF WriteSucceeds, TypeOK
  <2>3. Effect(d, w, Len(Writes(d)), w.regs, w.value)
    BY <1>2, <2>2 DEF WriteSucceeds, Effect
  <2>4. \E taken \in SUBSET w.regs : \E value \in Left(w) :
          Effect(d, w, Len(Writes(d)), taken, value)
    <3> HIDE DEF w
    <3> QED
      BY <2>1, <2>3
  <2> QED
    BY <2>4 DEF StepShape
<1> QED
  BY <1>1, <1>2 DEF SetupStep

\* The clock generator's step keeps what its registers and its place say.
LEMMA ClockStep ==
    ASSUME SetupStrength, SetupStep("si5351")
    PROVE  /\ AtInv' /\ Progress' /\ AmplifierProgress'
           /\ OutputsConfigured' /\ HalfwayOff'
<1> DEFINE d == "si5351"
           w == Si5351Writes[at[d]]
<1>1. TypeOK /\ AtInv /\ d \in Devices /\ Running(d) /\ Writes(d) = Si5351Writes
  BY DEF SetupStrength, Devices, SetupStep, Writes
<1>2. StepShape(d, w, 8)
  <2>1. StepShape(d, Writes(d)[at[d]], Len(Writes(d)))
    BY <1>1, StepEffect DEF SetupStrength
  <2>2. Writes(d)[at[d]] = w /\ Len(Writes(d)) = 8
    BY <1>1, Si5351WriteAt
  <2> QED
    BY <2>1, <2>2
<1>3a. PICK taken \in SUBSET w.regs : \E value \in Left(w) : Effect(d, w, 8, taken, value)
  BY <1>2 DEF StepShape
<1>3b. PICK value \in Left(w) : Effect(d, w, 8, taken, value)
  BY <1>3a
<1>3. /\ register' = [register EXCEPT ![d] = Written(register[d], w, taken, value)]
      /\ \/ failed' = failed \cup {d} /\ at' = at /\ complete' = complete
         \/ /\ failed' = failed /\ at' = [at EXCEPT ![d] = at[d] + 1]
            /\ complete' = IF at[d] = 8 THEN complete \cup {d} ELSE complete
            /\ taken = w.regs /\ value = w.value
  BY <1>3b DEF Effect
<1>4. /\ w.regs \subseteq Clock /\ value \in Values /\ at[d] \in 1..8
      /\ register[d] \in [Clock -> Values]
  BY <1>1, WriteTypes DEF TypeOK, Registers
<1>5. /\ register'["aw87559"] = register["aw87559"]
      /\ \A r \in Clock : register'[d][r] =
           IF r \in taken THEN value
           ELSE IF r = "pll" /\ w.regs \cap Multisynths # {} THEN "found"
           ELSE register[d][r]
  <2>1. register'[d] = Written(register[d], w, taken, value)
    BY <1>1, <1>3 DEF TypeOK
  <2> QED
    BY <1>1, <1>3, <1>4, <2>1, WrittenTypes DEF TypeOK, Devices
<1>6. at'["aw87559"] = at["aw87559"]
      /\ ("aw87559" \in complete' <=> "aw87559" \in complete)
  BY <1>1, <1>3 DEF TypeOK, Devices
<1>7. AmplifierProgress'
  BY <1>5, <1>6 DEF SetupStrength, AmplifierProgress
<1>8. d \notin failed /\ d \notin complete
  BY <1>1 DEF Running
<1>9. at' \in [Devices -> Nat] /\ at \in [Devices -> 1..9]
  BY <1>1, <1>3 DEF TypeOK
<1>10. AtInv'
  BY <1>1, <1>3, <1>4, <1>6, <1>8, <1>9 DEF AtInv, Devices
<1>11. Progress' /\ OutputsConfigured' /\ HalfwayOff'
  <2> USE <1>1, <1>3, <1>4, <1>5, <1>8, <1>9, Si5351WriteAt
      DEF SetupStrength, Progress, OutputsConfigured, HalfwayOff, ClockReg,
          ClockConfigured, Clock, Write, Left, Multisynths, Devices
  <2>1. CASE at[d] = 1
    BY <2>1
  <2>2. CASE at[d] = 2
    BY <2>2
  <2>3. CASE at[d] = 3
    BY <2>3
  <2>4. CASE at[d] = 4
    BY <2>4
  <2>5. CASE at[d] = 5
    BY <2>5
  <2>6. CASE at[d] = 6
    BY <2>6
  <2>7. CASE at[d] = 7
    BY <2>7
  <2>8. CASE at[d] = 8
    BY <2>8
  <2> QED
    BY <2>1, <2>2, <2>3, <2>4, <2>5, <2>6, <2>7, <2>8
<1> QED
  BY <1>7, <1>10, <1>11

\* The amplifier's step keeps what its registers and its place say.
LEMMA AmplifierStep ==
    ASSUME SetupStrength, SetupStep("aw87559")
    PROVE  /\ AtInv' /\ Progress' /\ AmplifierProgress'
           /\ OutputsConfigured' /\ HalfwayOff'
<1> DEFINE d == "aw87559"
           w == Aw87559Writes[at[d]]
<1>1. /\ TypeOK /\ AtInv /\ d \in Devices /\ Running(d) /\ Writes(d) = Aw87559Writes
      /\ Len(Aw87559Writes) = 2
      /\ Aw87559Writes[1] = Write({"chipid"}, "set")
      /\ Aw87559Writes[2] = Write({"sysctrl"}, "set")
  BY DEF SetupStrength, Devices, SetupStep, Writes, Aw87559Writes
<1>2. StepShape(d, w, 2)
  <2>1. StepShape(d, Writes(d)[at[d]], Len(Writes(d)))
    BY <1>1, StepEffect DEF SetupStrength
  <2> QED
    BY <1>1, <2>1
<1>3a. PICK taken \in SUBSET w.regs : \E value \in Left(w) : Effect(d, w, 2, taken, value)
  BY <1>2 DEF StepShape
<1>3b. PICK value \in Left(w) : Effect(d, w, 2, taken, value)
  BY <1>3a
<1>3. /\ register' = [register EXCEPT ![d] = Written(register[d], w, taken, value)]
      /\ \/ failed' = failed \cup {d} /\ at' = at /\ complete' = complete
         \/ /\ failed' = failed /\ at' = [at EXCEPT ![d] = at[d] + 1]
            /\ complete' = IF at[d] = 2 THEN complete \cup {d} ELSE complete
            /\ taken = w.regs /\ value = w.value
  BY <1>3b DEF Effect
<1>4. /\ w.regs \subseteq Amplifier /\ value \in Values /\ at[d] \in 1..2
      /\ register[d] \in [Amplifier -> Values]
  <2>1. /\ Writes(d)[at[d]].regs \subseteq Registers(d) /\ Left(Writes(d)[at[d]]) \subseteq Values
        /\ at[d] \in 1..Len(Writes(d))
    BY <1>1, WriteTypes
  <2> QED
    BY <1>1, <2>1 DEF TypeOK, Registers
<1>5. /\ register'["si5351"] = register["si5351"]
      /\ \A r \in Amplifier : register'[d][r] = IF r \in taken THEN value ELSE register[d][r]
  <2>1. register'[d] = Written(register[d], w, taken, value)
    BY <1>1, <1>3 DEF TypeOK
  <2>2. \A r \in Amplifier : r # "pll"
    BY DEF Amplifier
  <2>3. \A r \in Amplifier : Written(register[d], w, taken, value)[r] =
          IF r \in taken THEN value ELSE register[d][r]
    <3>1. \A r \in Amplifier : Written(register[d], w, taken, value)[r] =
            IF r \in taken THEN value
            ELSE IF r = "pll" /\ w.regs \cap Multisynths # {} THEN "found"
            ELSE register[d][r]
      <4>1. taken \in SUBSET Amplifier /\ value \in Values
            /\ register[d] \in [Amplifier -> Values]
        BY <1>4
      <4>2. DOMAIN register[d] = Amplifier
        BY <4>1
      <4> HIDE DEF w, d
      <4> QED
        BY <4>2 DEF Written
    <3> HIDE DEF w, d
    <3> QED
      BY <2>2, <3>1
  <2>4. register'["si5351"] = register["si5351"]
    BY <1>1, <1>3 DEF TypeOK, Devices
  <2> QED
    BY <2>1, <2>3, <2>4
<1>6. /\ at'["si5351"] = at["si5351"]
      /\ ("si5351" \in complete' <=> "si5351" \in complete)
      /\ ("si5351" \in failed' <=> "si5351" \in failed)
  BY <1>1, <1>3 DEF TypeOK, Devices
<1>7. Progress' /\ OutputsConfigured' /\ HalfwayOff'
  BY <1>5, <1>6 DEF SetupStrength, Progress, OutputsConfigured, HalfwayOff, ClockReg,
     ClockConfigured
<1>8. d \notin failed /\ d \notin complete
  BY <1>1 DEF Running
<1>9. at' \in [Devices -> Nat] /\ at \in [Devices -> 1..9]
  BY <1>1, <1>3 DEF TypeOK
<1>10. AtInv'
  BY <1>1, <1>3, <1>4, <1>6, <1>8, <1>9 DEF AtInv, Devices
<1>11. AmplifierProgress'
  <2> USE <1>1, <1>3, <1>4, <1>5, <1>8, <1>9
      DEF SetupStrength, AmplifierProgress, Amplifier, Write, Devices
  <2>1. CASE at[d] = 1
    BY <2>1
  <2>2. CASE at[d] = 2
    BY <2>2
  <2> QED
    BY <2>1, <2>2
<1> QED
  BY <1>7, <1>10, <1>11

\* Every step of a setup() keeps the types.
LEMMA StepTypes ==
    ASSUME TypeOK, AtInv, NEW d \in Devices, SetupStep(d)
    PROVE  TypeOK'
<1> DEFINE w == Writes(d)[at[d]]
<1>1. StepShape(d, w, Len(Writes(d))) /\ Running(d)
  BY StepEffect DEF SetupStep
<1>2. /\ w.regs \subseteq Registers(d) /\ Left(w) \subseteq Values
      /\ at[d] \in 1..8 /\ Len(Writes(d)) \in {2, 8}
  BY <1>1, WriteTypes
<1>3. PICK taken \in SUBSET w.regs :
        \E value \in Left(w) : Effect(d, w, Len(Writes(d)), taken, value)
  BY <1>1 DEF StepShape
<1>4. PICK value \in Left(w) : Effect(d, w, Len(Writes(d)), taken, value)
  BY <1>3
<1>5. Written(register[d], w, taken, value) \in [Registers(d) -> Values]
  <2> HIDE DEF w
  <2> QED
    BY <1>2, WrittenTypes DEF TypeOK
<1>6. /\ DOMAIN register' = Devices
      /\ \A e \in Devices : register'[e] \in [Registers(e) -> Values]
  BY <1>4, <1>5 DEF Effect, TypeOK
<1>7. at' \in [Devices -> 1..9]
  BY <1>2, <1>4 DEF Effect, TypeOK
<1>8. failed' \subseteq Devices /\ complete' \subseteq Devices
      /\ failed' \cap complete' = {}
  BY <1>1, <1>4 DEF Effect, Running, TypeOK
<1> QED
  BY <1>6, <1>7, <1>8 DEF TypeOK

\* The strengthened invariant holds at power-on, and every step keeps it.
LEMMA StrengthInit == Init => SetupStrength
BY DEF Init, SetupStrength, TypeOK, AtInv, Progress, AmplifierProgress,
   OutputsConfigured, HalfwayOff, ClockReg, Devices, Registers, Clock, Amplifier, Values

LEMMA StrengthStep == SetupStrength /\ [Next]_vars => SetupStrength'
<1> SUFFICES ASSUME SetupStrength, [Next]_vars PROVE SetupStrength'
  OBVIOUS
<1>1. CASE Restart
  <2>1. at' = [d \in Devices |-> 1] /\ register' = register /\ complete' = {} /\ failed' = {}
    BY <1>1 DEF Restart
  <2> QED
    BY <2>1 DEF SetupStrength, TypeOK, AtInv, Progress, AmplifierProgress,
       OutputsConfigured, HalfwayOff, ClockReg, ClockConfigured, Devices
<1>2. ASSUME NEW d \in Devices, SetupStep(d) PROVE SetupStrength'
  <2>1. TypeOK'
    BY <1>2, StepTypes DEF SetupStrength
  <2>2. d = "si5351" \/ d = "aw87559"
    BY DEF Devices
  <2>3. /\ AtInv' /\ Progress' /\ AmplifierProgress'
        /\ OutputsConfigured' /\ HalfwayOff'
    BY <1>2, <2>2, ClockStep, AmplifierStep
  <2> QED
    BY <2>1, <2>3 DEF SetupStrength
<1>3. CASE UNCHANGED vars
  BY <1>3 DEF vars, SetupStrength, TypeOK, AtInv, Progress, AmplifierProgress,
     OutputsConfigured, HalfwayOff, ClockReg, ClockConfigured
<1> QED
  BY <1>1, <1>2, <1>3 DEF Next

\* The strengthened invariant is one.
LEMMA StrengthAlways == Spec => []SetupStrength
BY StrengthInit, StrengthStep, PTL DEF Spec

\* Every variable keeps its type, and no component is both failed and complete.
THEOREM SetupTypes == Spec => []TypeOK
<1>1. SetupStrength => TypeOK
  BY DEF SetupStrength
<1> QED
  BY StrengthAlways, <1>1, PTL

\* The clock generator's outputs are on only when all it needs is configured,
\* over any number of failed writes and restarts.
THEOREM OutputsAreConfigured == Spec => []OutputsConfigured
<1>1. SetupStrength => OutputsConfigured
  BY DEF SetupStrength
<1> QED
  BY StrengthAlways, <1>1, PTL

\* A setup() that stopped halfway has left the outputs off.
THEOREM HalfwayIsOff == Spec => []HalfwayOff
<1>1. SetupStrength => HalfwayOff
  BY DEF SetupStrength
<1> QED
  BY StrengthAlways, <1>1, PTL

\* setup_complete_ is set only when the device has taken every write.
THEOREM CompleteIsConfigured == Spec => []CompleteMeansConfigured
<1>1. SetupStrength => CompleteMeansConfigured
  BY DEF SetupStrength, TypeOK, AtInv, Progress, AmplifierProgress,
     OutputsConfigured, CompleteMeansConfigured, ClockReg, ClockConfigured, Amplifier
<1> QED
  BY StrengthAlways, <1>1, PTL
=============================================================================
