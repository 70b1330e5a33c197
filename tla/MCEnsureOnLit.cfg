SPECIFICATION Spec
CONSTANTS
    HasMac = TRUE
    MaxBursts = 2
    MaxTries = 3
PROPERTIES ReturnsLit
