\* Bodies of up to three buffers, with and without a maximum.
CONSTANTS
  Options <- MCOptions
  BodyLengths <- MCBodyLengths
  HighWaterMark = 2
  Infinity = 9
SPECIFICATION FairSpec
CHECK_DEADLOCK FALSE
INVARIANTS TypeOK BodyIsWhatArrived
PROPERTIES CallsBack ImplementsPipe
