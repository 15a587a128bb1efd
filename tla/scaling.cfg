\* Builds start, the annotation is removed or garbled, calls fail, and time
\* passes; the timer is three units of time.
SPECIFICATION FairSpec
CONSTANTS
  None = None
  Timeouts <- MCTimeouts
  Period = 3
  MaxSkew = 1
  MaxAge = 8
  MaxStamps = 2
  MaxEdits = 1
  MaxFaults = 1
INVARIANTS ScalingTypeOK UpInTime DownInTime
PROPERTIES NotDownEarly ImplementsScaleToZero
