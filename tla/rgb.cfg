SPECIFICATION Spec
CONSTANTS
    Components = {"pyramid_rgb1", "pyramid_rgb2"}
    InitialStrip <- TwoStrips
    InitialWhite <- SecondWhite
    InitialBrightness <- Bright
    Owner <- ByStrip
    NumLeds = 2
    Full = 4
    Curve <- Square
    RefCurrent = 2
    Current <- Currents
    Levels = {0, 3, 5}
    UsedChannels = {1}
    UsedColours = {"R", "B"}
    Palette <- BlueOnly
    Brightnesses = {200}
INVARIANTS
    TypeOK
    ReportedShown
    BootFill
