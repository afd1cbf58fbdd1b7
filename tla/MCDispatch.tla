----------------------------- MODULE MCDispatch -----------------------------
(* Constants for checking Dispatch: two devices, one of which two automations *)
(* ask for, and the kinds of text the handlers tell apart.                    *)
EXTENDS Dispatch, TLC

Some == "unknown" :> <<"stranger">> @@ "received" :> <<"any", "from_device">>
          @@ "broadcasted" :> <<"bcast">>
Filters == "stranger" :> "*" @@ "any" :> "*" @@ "from_device" :> "device" @@ "bcast" :> "device"
SomeTexts == {<<>>, <<"hello">>, <<"", "1">>, <<"B43A-4581-EC70", "1", "3.1V">>}
=============================================================================
