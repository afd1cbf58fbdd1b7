---------------------------- MODULE MCPyramidRGB ----------------------------
(* Constants for checking PyramidRGB: the example's two components.          *)
EXTENDS PyramidRGB, TLC

TwoStrips == "pyramid_rgb1" :> 1 @@ "pyramid_rgb2" :> 2
SecondWhite == "pyramid_rgb1" :> 0 @@ "pyramid_rgb2" :> 80
Bright == [c \in {"pyramid_rgb1", "pyramid_rgb2"} |-> 100]
ByStrip == [ch \in Channels |-> IF ch < 2 THEN "pyramid_rgb1" ELSE "pyramid_rgb2"]
Square == [l \in 0..4 |-> (l * l) \div 4]
Currents == "R" :> 3 @@ "G" :> 2 @@ "B" :> -1
BlueOnly == {[k \in Colours |-> IF k = "B" THEN 255 ELSE 0]}
=============================================================================
