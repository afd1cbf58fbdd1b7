----------------------------- MODULE MCSwitchC6 -----------------------------
(* Constants for checking SwitchC6: a switch on channel 1, while others use
   13, which the driver does not accept from the component. *)
EXTENDS SwitchC6, TLC

OneSwitch == "lamp" :> 1
=============================================================================
