SPECIFICATION Spec
CONSTANTS
    Wanted = {"internal_clk", "high_pwm_freq"}
    Logarithmic = TRUE
    LedCurrent <- WhiteOnly
    UserChannels = {"B", "W"}
    UserEngines = {0, 2, 3}
    Levels = {255}
    Sources = {2, 4}
    Modes = {1, 4}
    Garbage <- AllOnes
INVARIANTS
    TypeOK
    UpMeansEnabled
    FieldsKept
