SPECIFICATION Spec
CONSTANT Texts <- MCTexts
INVARIANTS TreeIsTheText InvalidIsReported ValidIsAccepted NextLineParses
CHECK_DEADLOCK FALSE
