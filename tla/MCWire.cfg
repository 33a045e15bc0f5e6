CONSTANTS
  Width = 29
  Half = 15
  Tables <- MCTables
  Marshals <- MCMarshals
  Sizes <- MCSizes
  Numeral <- MCNumeral
  Samples <- MCSamples
  Unknown <- MCUnknown
  Inputs <- MCInputs
SPECIFICATION WireSpec
INVARIANTS
  StaysInSlice
  BufferFits
  
  CutIsSeen
PROPERTY Terminates
CHECK_DEADLOCK FALSE
