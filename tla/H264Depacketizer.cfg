\* Three frames of any of four shapes, with payloads skipped and damaged.
CONSTANTS
  Encodings <- MCEncodings
  Lossy = TRUE
  MaxFrames = 3
SPECIFICATION Spec
INVARIANTS
  UndamagedFramesComeOutWhole
  InOrderAndUnmixed
  KeyframeFlagExact
\* the camera stops after MaxFrames
CHECK_DEADLOCK FALSE
