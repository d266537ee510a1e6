CONSTANTS
  Pictures <- MCPictures
  Modes <- MCModes
  UnsetI <- MCUnsetI
  NoFile = NoFile

SPECIFICATION PixelSpec

INVARIANTS
  RoundTrip

CHECK_DEADLOCK FALSE
