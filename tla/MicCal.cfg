CONSTANTS
    Mics = {m0, m1}
    Levels <- ModeLevels
    Gains = {0, 1, 2, 3, 4, 5, 6, 7}
    Ripple = 1
SPECIFICATION Spec
INVARIANTS
    CalibratedSamplesAreTrue CalibrationSucceeds
CHECK_DEADLOCK TRUE
