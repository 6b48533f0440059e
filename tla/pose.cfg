SPECIFICATION FairSpec
CONSTANT Wait = 1
INVARIANTS CalibrationWaits ReferenceSettled
PROPERTIES CalibrationEnds RecenterServed
