------------------------------ MODULE I2cSetup ------------------------------
(***************************************************************************)
(* The clock generator and the amplifier (src/components/si5351, aw87559):  *)
(* two components whose setup() is a fixed sequence of register writes, any *)
(* of which may fail, on an ESP32 that may restart between two of them      *)
(* while the devices keep their registers.                                  *)
(*                                                                          *)
(* A register holds "found" (what it held before), "set" (what setup()      *)
(* wants in the end), "down" (the CLK1 driver switched off), "off" and "on" *)
(* (the outputs), or "torn" (a write of several bytes that broke off).      *)
(***************************************************************************)
EXTENDS Naturals, Sequences

Clock == {"outputs", "drivers", "clk1", "xtal", "multisynth_na", "multisynth1",
          "pll"}
Multisynths == {"multisynth_na", "multisynth1"}
Amplifier == {"chipid", "sysctrl"}
Devices == {"si5351", "aw87559"}
Registers(d) == IF d = "si5351" THEN Clock ELSE Amplifier
Values == {"found", "set", "down", "off", "on", "torn"}

VARIABLES
    at,        \* the write each device's setup() has come to
    register,  \* what the registers of each device hold
    failed,    \* the devices whose component is marked failed
    complete   \* setup_complete_

vars == <<at, register, failed, complete>>

Write(regs, value) == [regs |-> regs, value |-> value]

\* Mutant: the outputs are switched on before the PLL is reset.
Si5351WritesSwapped ==
    << Write({"outputs"}, "off"),
       Write({"drivers", "clk1"}, "down"),
       Write({"xtal"}, "set"),
       Write({"multisynth_na"}, "set"),
       Write({"multisynth1"}, "set"),
       Write({"clk1"}, "set"),
       Write({"outputs"}, "on"),
       Write({"pll"}, "set") >>

\* Registers 16 to 18 are written in one go; 17 is CLK1's.  Resetting the PLL is
\* a command: it counts as set until the parameters are written anew.
Si5351Writes ==
    << Write({"outputs"}, "off"),
       Write({"drivers", "clk1"}, "down"),
       Write({"xtal"}, "set"),
       Write({"multisynth_na"}, "set"),
       Write({"multisynth1"}, "set"),
       Write({"clk1"}, "set"),
       Write({"pll"}, "set"),
       Write({"outputs"}, "on") >>

Aw87559Writes == << Write({"chipid"}, "set"), Write({"sysctrl"}, "set") >>

Writes(d) == IF d = "si5351" THEN Si5351Writes ELSE Aw87559Writes

\* What registers r of a device hold after a write of w, when r is one that the
\* device has taken; the PLL runs on old parameters until its next reset.
Written(regs, w, taken, value) ==
    [r \in DOMAIN regs |->
       IF r \in taken THEN value
       ELSE IF r = "pll" /\ w.regs \cap Multisynths # {}
       THEN "found"
       ELSE regs[r]]

-----------------------------------------------------------------------------
Init ==
    /\ at = [d \in Devices |-> 1]
    /\ register = [d \in Devices |-> [r \in Registers(d) |-> "found"]]
    /\ failed = {}
    /\ complete = {}

\* ESPHome runs one setup() after the other, in an order the configuration
\* decides.
Begun(d) == at[d] > 1 /\ d \notin failed \cup complete

\* Mutant: the setup() of a failed component is called again.
RunningAgain(d) ==
    /\ d \notin complete
    /\ \A e \in Devices \ {d} : ~Begun(e)

Running(d) ==
    /\ d \notin failed \cup complete
    /\ \A e \in Devices \ {d} : ~Begun(e)

\* Mutant: a failed write does not end setup().
WriteFailsOn(d) ==
    /\ at' = [at EXCEPT ![d] = @ + 1]
    /\ complete' = IF at[d] = Len(Writes(d)) THEN complete \cup {d} ELSE complete
    /\ UNCHANGED <<register, failed>>

\* A write of several registers may break off between two of them or within the
\* parameters of a multisynth; any write may reach the device although an error
\* is reported.
Left(w) == IF w.regs \subseteq Multisynths THEN {w.value, "torn"} ELSE {w.value}

WriteFails(d) ==
    /\ failed' = failed \cup {d}
    /\ LET w == Writes(d)[at[d]]
       IN \E taken \in SUBSET w.regs, value \in Left(w) :
            register' = [register EXCEPT ![d] = Written(@, w, taken, value)]
    /\ UNCHANGED <<at, complete>>

WriteSucceeds(d) ==
    /\ LET w == Writes(d)[at[d]]
       IN register' = [register EXCEPT ![d] = Written(@, w, w.regs, w.value)]
    /\ at' = [at EXCEPT ![d] = @ + 1]
    /\ complete' = IF at[d] = Len(Writes(d)) THEN complete \cup {d} ELSE complete
    /\ UNCHANGED failed

SetupStep(d) == Running(d) /\ (WriteFails(d) \/ WriteSucceeds(d))

Restart ==
    /\ at' = [d \in Devices |-> 1]
    /\ failed' = {} /\ complete' = {}
    /\ UNCHANGED register

Next == Restart \/ \E d \in Devices : SetupStep(d)

Spec == Init /\ [][Next]_vars

-----------------------------------------------------------------------------
(* Properties.                                                              *)

\* Every variable keeps its type, and a component is not set up and failed.
TypeOK ==
    /\ at \in [Devices -> 1..9]
    /\ DOMAIN register = Devices
    /\ \A d \in Devices : register[d] \in [Registers(d) -> Values]
    /\ failed \subseteq Devices /\ complete \subseteq Devices
    /\ failed \cap complete = {}

ClockReg == register["si5351"]

ClockConfigured ==
    /\ ClockReg["drivers"] = "down"
    /\ \A r \in Clock \ {"outputs", "drivers"} : ClockReg[r] = "set"

\* Once the component has written to the outputs at all, they are on only with
\* every register as setup() wants it and the PLL reset since: also when writes
\* fail in one boot, the ESP32 restarts, and another write fails in the next.
OutputsConfigured == ClockReg["outputs"] = "on" => ClockConfigured

\* setup() that is under way, or has failed, after its first write and before its
\* last has the outputs off (si5351_esphome.cpp:20, "Disable all outputs").
HalfwayOff ==
    at["si5351"] > 1 /\ "si5351" \notin complete
      /\ (at["si5351"] = Len(Si5351Writes) => "si5351" \notin failed) =>
    ClockReg["outputs"] = "off"

\* How far the clock generator's registers are after the writes so far.
Progress ==
    LET k == at["si5351"]
    IN /\ k > 2 => ClockReg["drivers"] = "down"
       /\ k > 3 => ClockReg["xtal"] = "set"
       /\ k > 4 => ClockReg["multisynth_na"] = "set"
       /\ k > 5 => ClockReg["multisynth1"] = "set"
       /\ k > 6 => ClockReg["clk1"] = "set"
       /\ k > 7 => ClockReg["pll"] = "set"
       /\ k > 8 => ClockReg["outputs"] = "on"

\* setup_complete_ (what the log calls "OK") is the truth: it is set only when
\* the device has taken all of the writes.
CompleteMeansConfigured ==
    /\ "si5351" \in complete => ClockReg["outputs"] = "on" /\ ClockConfigured
    /\ "aw87559" \in complete =>
         \A r \in Amplifier : register["aw87559"][r] = "set"
=============================================================================
